---- MODULE Spec2Model ----
(***************************************************************************)
(* Portfolio sourcer: deduplication engine, attribution verifier, link     *)
(* validator and the scan pipeline, modelled from the Python sources.      *)
(*                                                                         *)
(* A Python str is a sequence of one-character strings, so that lower(),   *)
(* split(), rstrip(), substring search and urlparse are computed character *)
(* by character as the library computes them.                              *)
(***************************************************************************)
EXTENDS Integers, Sequences, FiniteSets, TLC

(***************************************************************************)
(* Strings                                                                 *)
(***************************************************************************)

LowerMap ==
    ("A" :> "a") @@ ("B" :> "b") @@ ("C" :> "c") @@ ("D" :> "d") @@
    ("E" :> "e") @@ ("F" :> "f") @@ ("G" :> "g") @@ ("H" :> "h") @@
    ("I" :> "i") @@ ("J" :> "j") @@ ("K" :> "k") @@ ("L" :> "l") @@
    ("M" :> "m") @@ ("N" :> "n") @@ ("O" :> "o") @@ ("P" :> "p") @@
    ("Q" :> "q") @@ ("R" :> "r") @@ ("S" :> "s") @@ ("T" :> "t") @@
    ("U" :> "u") @@ ("V" :> "v") @@ ("W" :> "w") @@ ("X" :> "x") @@
    ("Y" :> "y") @@ ("Z" :> "z")

LowerChar(c) == IF c \in DOMAIN LowerMap THEN LowerMap[c] ELSE c

\* F applied to the value of e, e being evaluated once
Bind(e, F(_)) == CHOOSE r \in { F(v) : v \in {e} } : TRUE

\* str.lower()
str_lower(s) == Bind(s, LAMBDA v : [i \in 1..Len(v) |-> LowerChar(v[i])])

IsSpace(c) == c = " "

\* set(str.split()): the maximal runs of non-whitespace characters
str_split(s) ==
    Bind(s, LAMBDA v :
        { SubSeq(v, i, j) : <<i, j>> \in
            { p \in (1..Len(v)) \X (1..Len(v)) :
                /\ p[1] <= p[2]
                /\ \A k \in p[1]..p[2] : ~IsSpace(v[k])
                /\ (p[1] = 1 \/ IsSpace(v[p[1] - 1]))
                /\ (p[2] = Len(v) \/ IsSpace(v[p[2] + 1])) } })

\* str.find(c): the first index of character c in s, 0 when absent
\* (indices are 1-based here, so Python's -1 is 0)
str_find(s, c) ==
    Bind(s, LAMBDA v :
        IF \E i \in 1..Len(v) : v[i] = c
        THEN CHOOSE i \in 1..Len(v) : v[i] = c /\ \A k \in 1..(i - 1) : v[k] /= c
        ELSE 0)

\* s[i:] for a 1-based i
str_from(s, i) == SubSeq(s, i, Len(s))

\* needle in hay
str_contains(hay, needle) ==
    Bind(<<hay, needle>>, LAMBDA v :
        \E i \in 0..(Len(v[1]) - Len(v[2])) :
            \A k \in 1..Len(v[2]) : v[1][i + k] = v[2][k])

\* s.startswith(prefix)
str_startswith(s, prefix) ==
    Bind(s, LAMBDA v :
        /\ Len(prefix) <= Len(v)
        /\ \A k \in 1..Len(prefix) : v[k] = prefix[k])

\* s.rstrip('/'): every trailing '/' is removed
str_rstrip_slash(s) ==
    Bind(s, LAMBDA v :
        SubSeq(v, 1, CHOOSE n \in 0..Len(v) :
                        /\ (n = 0 \/ v[n] /= "/")
                        /\ \A k \in (n + 1)..Len(v) : v[k] = "/"))

(***************************************************************************)
(* urllib.parse.urlparse, as CPython 3 computes it, for URLs without       *)
(* control characters, ';' parameters or '[' ']' host brackets.            *)
(***************************************************************************)

Letters == DOMAIN LowerMap \cup { LowerMap[c] : c \in DOMAIN LowerMap }
Digits  == {"0", "1", "2", "3", "4", "5", "6", "7", "8", "9"}
SchemeChars == Letters \cup Digits \cup {"+", "-", "."}

\* Each stage of urlsplit hands what it has split off to the next one.

\* if '?' in url: url, query = url.split('?', 1)
urlsplit_query(scheme, netloc, rest, fragment, q) ==
    [scheme |-> scheme, netloc |-> netloc,
     path |-> IF q > 0 THEN SubSeq(rest, 1, q - 1) ELSE rest,
     query |-> IF q > 0 THEN str_from(rest, q + 1) ELSE <<>>,
     fragment |-> fragment]

urlsplit_path(scheme, netloc, rest, fragment) ==
    urlsplit_query(scheme, netloc, rest, fragment, str_find(rest, "?"))

\* if '#' in url: url, fragment = url.split('#', 1)
urlsplit_fragment(scheme, netloc, rest, h) ==
    urlsplit_path(scheme, netloc,
                  IF h > 0 THEN SubSeq(rest, 1, h - 1) ELSE rest,
                  IF h > 0 THEN str_from(rest, h + 1) ELSE <<>>)

\* _splitnetloc: the netloc ends at the first of '/', '?', '#'
url_netloc_end(rest) ==
    Bind({ k \in 3..Len(rest) : rest[k] \in {"/", "?", "#"} }, LAMBDA delims :
        IF delims = {} THEN Len(rest) + 1
        ELSE CHOOSE k \in delims : \A m \in delims : k <= m)

urlsplit_after_netloc(scheme, netloc, rest) ==
    urlsplit_fragment(scheme, netloc, rest, str_find(rest, "#"))

\* if url[:2] == '//': netloc, url = _splitnetloc(url, 2)
urlsplit_netloc(scheme, rest, delim) ==
    IF Len(rest) >= 2 /\ rest[1] = "/" /\ rest[2] = "/"
    THEN urlsplit_after_netloc(scheme, SubSeq(rest, 3, delim - 1),
                               str_from(rest, delim))
    ELSE urlsplit_after_netloc(scheme, <<>>, rest)

urlsplit_rest(scheme, rest) ==
    Bind(rest, LAMBDA v : urlsplit_netloc(scheme, v, url_netloc_end(v)))

\* the scheme is what precedes the first ':' when it starts with a letter
\* and holds scheme characters only
urlsplit_scheme(url, i) ==
    IF /\ i > 1
       /\ url[1] \in Letters
       /\ \A k \in 1..(i - 1) : url[k] \in SchemeChars
    THEN urlsplit_rest(str_lower(SubSeq(url, 1, i - 1)), str_from(url, i + 1))
    ELSE urlsplit_rest(<<>>, url)

urlparse(url) == Bind(url, LAMBDA v : urlsplit_scheme(v, str_find(v, ":")))

\* f"{parsed.scheme}://{parsed.netloc}{parsed.path}"
url_join(parsed) ==
    parsed.scheme \o <<":", "/", "/">> \o parsed.netloc \o parsed.path

(***************************************************************************)
(* Similarity scores are Python floats intersection / union of two small   *)
(* integers; they are kept as exact fractions and compared by cross        *)
(* multiplication (4/5 and the literal 0.8 are the same double).           *)
(***************************************************************************)

Frac(n, d) == [num |-> n, den |-> d]
FracGt(a, b) == a.num * b.den > b.num * a.den
FracLt(a, b) == a.num * b.den < b.num * a.den
FracEq(a, b) == a.num * b.den = b.num * a.den

\* the literal 0.8 of both deduplication variants
SimilarityThreshold == Frac(4, 5)

(***************************************************************************)
(* DiscoveryEngine (src/portfolio_sourcer/discovery.py)                    *)
(***************************************************************************)

\* A field of a record that holds no str (None, a number): it is no
\* sequence of characters and has no lower().
NotAString == <<"None">>
is_str(v) == v /= NotAString

\* project.get("url", "").lower() or project.get("title", "").lower()
\* raises AttributeError
lower_raises(project) == ~is_str(project.url) \/ ~is_str(project.title)

\* DiscoveryEngine._normalize_url
_normalize_url(url) ==
    IF url = <<>> THEN <<>>
    ELSE str_lower(str_rstrip_slash(url_join(urlparse(url))))

\* Mutant: the overlap is divided by the words of the first text.
word_overlap_of_first(words1, words2) ==
    IF words1 = {} /\ words2 = {} THEN Frac(1, 1)
    ELSE IF words1 = {} \/ words2 = {} THEN Frac(0, 1)
    ELSE Frac(Cardinality(words1 \cap words2), Cardinality(words1))

\* DiscoveryEngine._calculate_similarity
word_overlap(words1, words2) ==
    IF words1 = {} /\ words2 = {} THEN Frac(1, 1)
    ELSE IF words1 = {} \/ words2 = {} THEN Frac(0, 1)
    ELSE Frac(Cardinality(words1 \cap words2),
              Cardinality(words1 \cup words2))

\* Mutant: the words are compared as written, without lower().
_calculate_similarity_case_sensitive(text1, text2) ==
    IF text1 = <<>> \/ text2 = <<>> THEN Frac(0, 1)
    ELSE word_overlap(str_split(text1), str_split(text2))

_calculate_similarity(text1, text2) ==
    IF text1 = <<>> \/ text2 = <<>> THEN Frac(0, 1)
    ELSE word_overlap(str_split(str_lower(text1)), str_split(str_lower(text2)))

\* the inner loop of deduplicate_projects over seen_titles
is_similar(title, seen_titles) ==
    \E seen_title \in seen_titles :
        FracGt(_calculate_similarity(title, seen_title), SimilarityThreshold)

\* Mutant: the loop appends a cleaned copy of the record, carrying the
\* normalized URL, instead of the record it was given.
deduplicate_body_copy(st, project, normalized_url, title) ==
    IF /\ normalized_url /= <<>>
       /\ normalized_url \notin st.seen_urls
       /\ ~is_similar(title, st.seen_titles)
    THEN [seen_urls   |-> st.seen_urls \cup {normalized_url},
          seen_titles |-> st.seen_titles \cup {title},
          unique      |-> Append(st.unique,
                                 [project EXCEPT !.url = normalized_url])]
    ELSE st

\* Mutant: the loop records the URL as given instead of the normalized one.
deduplicate_body_rawurl(st, project, normalized_url, title) ==
    IF /\ normalized_url /= <<>>
       /\ normalized_url \notin st.seen_urls
       /\ ~is_similar(title, st.seen_titles)
    THEN [seen_urls   |-> st.seen_urls \cup {str_lower(project.url)},
          seen_titles |-> st.seen_titles \cup {title},
          unique      |-> Append(st.unique, project)]
    ELSE st

\* The body of the loop of DiscoveryEngine.deduplicate_projects on the loop
\* state st = [seen_urls, seen_titles, unique], once normalized_url and
\* title are computed.
deduplicate_body(st, project, normalized_url, title) ==
    IF /\ normalized_url /= <<>>
       /\ normalized_url \notin st.seen_urls
       /\ ~is_similar(title, st.seen_titles)
    THEN [seen_urls   |-> st.seen_urls \cup {normalized_url},
          seen_titles |-> st.seen_titles \cup {title},
          unique      |-> Append(st.unique, project)]
    ELSE st

\* One iteration of the loop of DiscoveryEngine.deduplicate_projects
deduplicate_step(st, project) ==
    deduplicate_body(st, project,
                     _normalize_url(str_lower(project.url)),
                     str_lower(project.title))

(***************************************************************************)
(* Legacy PortfolioSourcer (src/portfolio_sourcer.py)                      *)
(***************************************************************************)

\* PortfolioSourcer._normalize_url (no final lower(), no try/except)
Legacy_normalize_url(url) ==
    IF url = <<>> THEN <<>>
    ELSE str_rstrip_slash(url_join(urlparse(url)))

\* PortfolioSourcer._calculate_similarity(text, texts): the maximum word
\* overlap of text with any of texts, 0.0 for an empty list
FracMax(all) == CHOOSE m \in all : \A f \in all : ~FracGt(f, m)

Legacy_word_overlap(words, t_words) ==
    Frac(Cardinality(words \cap t_words), Cardinality(words \cup t_words))

Legacy_max_sim(words, texts) ==
    FracMax({Frac(0, 1)} \cup
            { Legacy_word_overlap(words, str_split(t)) :
              t \in { u \in texts : words /= {} \/ str_split(u) /= {} } })

Legacy_calculate_similarity(text, texts) == Legacy_max_sim(str_split(text), texts)

\* The body of the loop of PortfolioSourcer._deduplicate_projects
Legacy_deduplicate_body(st, project, normalized_url, title) ==
    IF /\ normalized_url /= <<>>
       /\ normalized_url \notin st.seen_urls
       /\ \/ title \notin st.seen_titles
          \/ FracLt(Legacy_calculate_similarity(title, st.seen_titles),
                    SimilarityThreshold)
    THEN [seen_urls   |-> st.seen_urls \cup {normalized_url},
          seen_titles |-> st.seen_titles \cup {title},
          unique      |-> Append(st.unique, project)]
    ELSE st

\* One iteration of the loop of PortfolioSourcer._deduplicate_projects
Legacy_deduplicate_step(st, project) ==
    Legacy_deduplicate_body(st, project,
                            Legacy_normalize_url(str_lower(project.url)),
                            str_lower(project.title))

(***************************************************************************)
(* Candidate records the deduplication runs are given                      *)
(***************************************************************************)

U_a_x     == <<"h", ":", "/", "/", "s", "/", "a", "?", "x">>   \* 'h://s/a?x'
U_a_y     == <<"h", ":", "/", "/", "s", "/", "a", "?", "y">>   \* 'h://s/a?y'
U_b       == <<"h", ":", "/", "/", "s", "/", "b">>             \* 'h://s/b'
U_B_slash == <<"H", ":", "/", "/", "S", "/", "B", "/">>        \* 'H://S/B/'
U_c       == <<"h", ":", "/", "/", "s", "/", "c">>             \* 'h://s/c'
U_rel     == <<"a">>                                           \* 'a'
U_empty   == <<>>                                              \* ''

T_abcde   == <<"a", " ", "b", " ", "c", " ", "d", " ", "e">>            \* 'a b c d e'
T_abcdef  == <<"a", " ", "b", " ", "c", " ", "d", " ", "e", " ", "f">>  \* 'a b c d e f'
T_Abcde   == <<"A", " ", "b", " ", "c", " ", "d", " ", "e">>            \* 'A b c d e'
T_g       == <<"g">>                                                    \* 'g'
T_k       == <<"k">>                                                    \* 'k'
T_empty   == <<>>                                                       \* ''

Candidate(u, t) == [url |-> u, title |-> t]

CandidatePool ==
    { Candidate(U_a_x, T_abcde),      \* the reference record
      Candidate(U_a_y, T_g),          \* same URL up to the query string
      Candidate(U_b, T_abcdef),       \* new URL, title 5/6 similar
      Candidate(U_B_slash, T_g),      \* U_b up to case and trailing '/'
      Candidate(U_c, T_Abcde),        \* new URL, title equal up to case
      Candidate(U_empty, T_k),        \* empty URL
      Candidate(U_rel, T_empty),      \* relative URL, empty title
      Candidate(U_c, T_empty) }       \* second empty title

\* the longest candidate list a run is given
MaxProjects == 3

CandidateLists ==
    UNION { [1..n -> CandidatePool] : n \in 0..MaxProjects }

(***************************************************************************)
(* Attribution verification: VerificationSystem (verification.py) and the  *)
(* verify_attribution of the single-file PortfolioSourcer                  *)
(***************************************************************************)

\* \w of the re module, for the ASCII characters used here
IsWordChar(c) == c \in Letters \cup Digits \cup {"_"}

\* regex \b at the gap after the first p characters of s (p in 0..Len(s))
word_boundary(s, p) ==
    (p >= 1 /\ IsWordChar(s[p])) /= (p < Len(s) /\ IsWordChar(s[p + 1]))

\* the compiled pattern (the escaped lower-cased name, re.IGNORECASE, inside
\* \b...\b when bounded) matches content at index i
name_matches_at(name, content, i, bounded) ==
    /\ i + Len(name) - 1 <= Len(content)
    /\ \A k \in 1..Len(name) : LowerChar(content[i + k - 1]) = LowerChar(name[k])
    /\ bounded => /\ word_boundary(content, i - 1)
                  /\ word_boundary(content, i - 1 + Len(name))

\* len(pattern.findall(content)): the non-overlapping matches found scanning
\* from index i to the right
RECURSIVE findall_count(_, _, _, _)
findall_count(name, content, i, bounded) ==
    IF i > Len(content) + 1 THEN 0
    ELSE IF name_matches_at(name, content, i, bounded)
         THEN 1 + findall_count(name, content,
                                i + (IF Len(name) = 0 THEN 1 ELSE Len(name)),
                                bounded)
         ELSE findall_count(name, content, i + 1, bounded)

RECURSIVE seq_sum(_)
seq_sum(s) == IF s = <<>> THEN 0 ELSE s[1] + seq_sum(Tail(s))

\* VerificationSystem._count_name_mentions
_count_name_mentions(verification_names, content) ==
    seq_sum([k \in 1..Len(verification_names) |->
                findall_count(verification_names[k], content, 1, TRUE)])

\* s.replace(c, '') for every c in chars
str_remove(s, chars) == SelectSeq(s, LAMBDA c : c \notin chars)

agency_found(agency, content_lower) ==
    str_contains(content_lower, str_remove(str_lower(agency), {"\\", "/"}))

\* VerificationSystem._check_agency_associations
_check_agency_associations(known_agencies, content) ==
    SelectSeq(known_agencies, LAMBDA a : agency_found(a, str_lower(content)))

brand_found(brand, content_lower) ==
    \/ str_contains(content_lower, str_remove(str_lower(brand), {"'", " "}))
    \/ str_contains(content_lower, str_lower(brand))

\* Optional[str] results: <<>> is None, <<s>> is the string s
first_or_none(found) == IF found = <<>> THEN <<>> ELSE <<found[1]>>

\* VerificationSystem._check_brand_association
_check_brand_association(known_brands, content) ==
    first_or_none(SelectSeq(known_brands,
                            LAMBDA b : brand_found(b, str_lower(content))))

\* `if brand_match:` -- a brand was returned and it is not the empty string
brand_truthy(brand_match) == brand_match /= <<>> /\ brand_match[1] /= <<>>

\* 'linkedin.com'
LINKEDIN_DOMAIN ==
    <<"l", "i", "n", "k", "e", "d", "i", "n", ".", "c", "o", "m">>

\* VerificationSystem._check_linkedin_mention
_check_linkedin_mention(linkedin_url, project, content) ==
    \/ str_contains(str_lower(project.url), LINKEDIN_DOMAIN)
    \/ /\ linkedin_url /= <<>>
       /\ str_contains(str_lower(content), str_lower(linkedin_url))

portfolio_domains ==
    << <<"j", "g", "e", "r", "m", "s", "2", "0", ".", "g", "i", "t", "h", "u", "b", ".", "i", "o">>,
       <<"j", "o", "s", "h", "u", "a", "g", "e", "r", "m", "a", "n", ".", "c", "o", "m">>,
       <<"j", "o", "s", "h", "u", "a", "-", "g", "e", "r", "m", "a", "n", ".", "c", "o", "m">> >>

domain_in_url(url_lower) ==
    \E k \in DOMAIN portfolio_domains : str_contains(url_lower, portfolio_domains[k])

\* VerificationSystem._check_portfolio_mention
_check_portfolio_mention(portfolio_url, url, content) ==
    portfolio_url /= <<>> /\ domain_in_url(str_lower(url))

\* What the network answers to the GET of the page: the text of the page
\* (kind "ok"), a status raise_for_status() rejects, a timeout, or no
\* connection.
Answer(kind, text) == [kind |-> kind, text |-> text]

requests_get_raises(net) == net.kind \in {"http_error", "timeout", "conn_error"}

\* Values of type Optional[str] coming out of a call: exc = the call raised,
\* has = FALSE is None
Returned(text) == [exc |-> FALSE, has |-> TRUE, text |-> text]
ReturnedNone == [exc |-> FALSE, has |-> FALSE, text |-> <<>>]
Raised == [exc |-> TRUE, has |-> FALSE, text |-> <<>>]

\* _fetch_page_content without its try/except: the failure propagates
_fetch_page_content_unguarded(net) ==
    IF requests_get_raises(net) THEN Raised ELSE Returned(net.text)

\* VerificationSystem._fetch_page_content: every exception becomes None
_fetch_page_content(net) ==
    IF requests_get_raises(net) THEN ReturnedNone ELSE Returned(net.text)

\* `if content:` and `content or ""`
content_truthy(content) == content.has /\ content.text /= <<>>
content_or_empty(content) == IF content.has THEN content.text ELSE <<>>

\* the cap of the name signal
NameCap == 3
\* the weight of the external-profile signal
LinkedInPoints == 2

\* evidence_sources entries: the kind of sentence and what it is filled with
Evidence(kind, n, items) == [kind |-> kind, n |-> n, items |-> items]

\* the locals verification_score and evidence_sources; exc = an exception
\* is propagating
Locals0 == [score |-> 0, evidence |-> <<>>, exc |-> FALSE]

add_evidence(acc, points, ev) ==
    [acc EXCEPT !.score = @ + points, !.evidence = Append(@, ev)]

int_min(a, b) == IF a < b THEN a ELSE b

\* Method 1 capping the name signal at the threshold instead of at 3
method1_score_threshold_cap(self, acc, name_mentions) ==
    IF name_mentions > 0
    THEN add_evidence(acc, int_min(name_mentions, self.verification_threshold),
                      Evidence("name", name_mentions, <<>>))
    ELSE acc

method1_score(self, acc, name_mentions) ==
    IF name_mentions > 0
    THEN add_evidence(acc, int_min(name_mentions, NameCap),
                      Evidence("name", name_mentions, <<>>))
    ELSE acc

\* Method 1: name mentions on the page
method1(self, content, acc) ==
    IF content_truthy(content)
    THEN method1_score(self, acc,
                       _count_name_mentions(self.verification_names, content.text))
    ELSE acc

\* Method 2 counting one point however many agencies match
method2_score_one_point(acc, agency_matches) ==
    IF agency_matches /= <<>>
    THEN add_evidence(acc, 1, Evidence("agencies", 0, agency_matches))
    ELSE acc

method2_score(acc, agency_matches) ==
    IF agency_matches /= <<>>
    THEN add_evidence(acc, Len(agency_matches), Evidence("agencies", 0, agency_matches))
    ELSE acc

\* Method 2: agency associations
method2(self, content, acc) ==
    IF content_truthy(content)
    THEN method2_score(acc, _check_agency_associations(self.known_agencies, content.text))
    ELSE acc

method3_score(acc, brand_match) ==
    IF brand_truthy(brand_match)
    THEN add_evidence(acc, 1, Evidence("brand", 0, brand_match))
    ELSE acc

\* Method 3: brand association
method3(self, content, acc) ==
    IF content_truthy(content)
    THEN method3_score(acc, _check_brand_association(self.known_brands, content.text))
    ELSE acc

\* Method 4: LinkedIn mention
method4(self, project, content, acc) ==
    IF _check_linkedin_mention(self.linkedin_url, project, content_or_empty(content))
    THEN add_evidence(acc, LinkedInPoints, Evidence("linkedin", 0, <<>>))
    ELSE acc

\* Method 5: portfolio site mention
method5(self, url, content, acc) ==
    IF /\ self.portfolio_url /= <<>>
       /\ _check_portfolio_mention(self.portfolio_url, url, content_or_empty(content))
    THEN add_evidence(acc, 1, Evidence("portfolio", 0, <<>>))
    ELSE acc

\* Mutant: the portfolio-site check runs before the LinkedIn check.
verify_try_portfolio_first(self, project, content) ==
    IF content.exc
    THEN [Locals0 EXCEPT !.exc = TRUE]
    ELSE method4(self, project, content,
           method5(self, project.url, content,
             method3(self, content,
               method2(self, content,
                 method1(self, content, Locals0)))))

\* the body of the try block, given what _fetch_page_content came back with
verify_try(self, project, content) ==
    IF content.exc
    THEN [Locals0 EXCEPT !.exc = TRUE]
    ELSE method5(self, project.url, content,
           method4(self, project, content,
             method3(self, content,
               method2(self, content,
                 method1(self, content, Locals0)))))

\* except Exception: the error is logged and the locals keep their values
verify_except(acc) == [acc EXCEPT !.exc = FALSE]

\* the tuple verify_attribution returns; raised = it raised instead
Result(is_verified, score, evidence, raised) ==
    [is_verified |-> is_verified, score |-> score, evidence |-> evidence,
     raised |-> raised]

verify_return(self, acc) ==
    Result(acc.score >= self.verification_threshold, acc.score, acc.evidence, acc.exc)

\* VerificationSystem.verify_attribution
verify_attribution(self, project, net) ==
    IF project.url = <<>>
    THEN Result(FALSE, 0, <<>>, FALSE)
    ELSE verify_return(self,
             verify_except(verify_try(self, project, _fetch_page_content(net))))

(***************************************************************************)
(* PortfolioSourcer.verify_attribution (portfolio_sourcer.py)              *)
(***************************************************************************)

Legacy_verification_names ==
    << <<"J", "o", "s", "h", "u", "a", " ", "G", "e", "r", "m", "a", "n">>,
       <<"J", "o", "s", "h", "u", "a", " ", "M", ".", " ", "G", "e", "r", "m", "a", "n">>,
       <<"J", "o", "s", "h", "u", "a", " ", "M", "c", "K", "e", "n", "z", "i", "e", " ", "G", "e", "r", "m", "a", "n">>,
       <<"J", "o", "s", "h", " ", "G", "e", "r", "m", "a", "n">>,
       <<"J", ".", " ", "G", "e", "r", "m", "a", "n">> >>

Legacy_known_agencies ==
    << <<"T", "B", "W", "A", "\\", "C", "h", "i", "a", "t", "\\", "D", "a", "y">>,
       <<"T", "B", "W", "A", " ", "C", "h", "i", "a", "t", " ", "D", "a", "y">>,
       <<"W", "i", "e", "d", "e", "n", "+", "K", "e", "n", "n", "e", "d", "y">>,
       <<"G", "o", "o", "d", "b", "y", ",", " ", "S", "i", "l", "v", "e", "r", "s", "t", "e", "i", "n", " ", "&", " ", "P", "a", "r", "t", "n", "e", "r", "s">>,
       <<"G", "S", "&", "P">> >>

Legacy_known_brands ==
    << <<"L", "e", "v", "i", "'", "s">>,
       <<"S", "e", "p", "h", "o", "r", "a">>,
       <<"D", "o", "o", "r", "D", "a", "s", "h">>,
       <<"B", "M", "W">>,
       <<"C", "a", "l", "i", "f", "i", "a">>,
       <<"D", "I", "R", "E", "C", "T", "V">>,
       <<"S", "a", "m", "u", "e", "l", " ", "A", "d", "a", "m", "s">> >>

\* PortfolioSourcer._count_name_mentions: no word boundaries
Legacy_count_name_mentions(content) ==
    seq_sum([k \in 1..Len(Legacy_verification_names) |->
                findall_count(Legacy_verification_names[k], content, 1, FALSE)])

Legacy_lower_in(s, content_lower) == str_contains(content_lower, str_lower(s))

\* PortfolioSourcer._check_agency_associations
Legacy_check_agency_associations(content) ==
    SelectSeq(Legacy_known_agencies, LAMBDA a : Legacy_lower_in(a, str_lower(content)))

\* PortfolioSourcer._check_linkedin_mention
Legacy_check_linkedin_mention(project) == FALSE

\* PortfolioSourcer._check_brand_association
Legacy_check_brand_association(project, content) ==
    first_or_none(SelectSeq(Legacy_known_brands,
                            LAMBDA b : Legacy_lower_in(b, str_lower(content))))

\* PortfolioSourcer._check_portfolio_mention
Legacy_check_portfolio_mention(url, content) == domain_in_url(str_lower(url))

\* PortfolioSourcer._fetch_page_content
Legacy_fetch_page_content(net) ==
    IF requests_get_raises(net) THEN ReturnedNone ELSE Returned(net.text)

Legacy_method1_score(acc, name_mentions) ==
    IF name_mentions > 0
    THEN add_evidence(acc, name_mentions, Evidence("name", name_mentions, <<>>))
    ELSE acc

Legacy_method1(content, acc) ==
    IF content_truthy(content)
    THEN Legacy_method1_score(acc, Legacy_count_name_mentions(content.text))
    ELSE acc

Legacy_method2(content, acc) ==
    method2_score(acc, Legacy_check_agency_associations(content_or_empty(content)))

Legacy_method3(project, acc) ==
    IF Legacy_check_linkedin_mention(project)
    THEN add_evidence(acc, LinkedInPoints, Evidence("linkedin", 0, <<>>))
    ELSE acc

Legacy_method4(project, content, acc) ==
    method3_score(acc, Legacy_check_brand_association(project, content_or_empty(content)))

Legacy_method5(url, content, acc) ==
    IF Legacy_check_portfolio_mention(url, content_or_empty(content))
    THEN add_evidence(acc, 1, Evidence("portfolio", 0, <<>>))
    ELSE acc

Legacy_verify_try(project, content) ==
    IF content.exc
    THEN [Locals0 EXCEPT !.exc = TRUE]
    ELSE Legacy_method5(project.url, content,
           Legacy_method4(project, content,
             Legacy_method3(project,
               Legacy_method2(content,
                 Legacy_method1(content, Locals0)))))

\* PortfolioSourcer.verify_attribution; the threshold is read from the
\* configuration after the try block
Legacy_verify_attribution(self, project, net) ==
    IF project.url = <<>>
    THEN Result(FALSE, 0, <<>>, FALSE)
    ELSE verify_return(self,
             verify_except(Legacy_verify_try(project, Legacy_fetch_page_content(net))))

(***************************************************************************)
(* Configurations, records and network answers the verifiers are given     *)
(***************************************************************************)

CFG_verification_names ==
    << <<"J", "o", "s", "h", " ", "G", "e", "r", "m", "a", "n">>,
       <<"J", ".", " ", "G", "e", "r", "m", "a", "n">> >>

CFG_known_agencies ==
    << <<"T", "B", "W", "A", "\\", "C", "h", "i", "a", "t", "\\", "D", "a", "y">>,
       <<"G", "S", "&", "P">> >>

CFG_known_brands ==
    << <<"L", "e", "v", "i", "'", "s">>,
       <<"B", "M", "W">> >>

\* 'h://linkedin.com/in/jg'
CFG_linkedin_url ==
    <<"h", ":", "/", "/", "l", "i", "n", "k", "e", "d", "i", "n", ".", "c", "o", "m", "/", "i", "n", "/", "j", "g">>
\* 'h://p'
CFG_portfolio_url ==
    <<"h", ":", "/", "/", "p">>

\* the largest verification_threshold a configuration carries
MaxThreshold == 4

Thresholds == (0 - 1)..MaxThreshold

Config(threshold, linkedin_url, portfolio_url) ==
    [verification_names |-> CFG_verification_names,
     known_agencies |-> CFG_known_agencies,
     known_brands |-> CFG_known_brands,
     verification_threshold |-> threshold,
     linkedin_url |-> linkedin_url,
     portfolio_url |-> portfolio_url]

ConfigPool ==
    { Config(t, l, p) : t \in Thresholds,
                        l \in {<<>>, CFG_linkedin_url},
                        p \in {<<>>, CFG_portfolio_url} }

\* 'h://s/a'
VU_plain ==
    <<"h", ":", "/", "/", "s", "/", "a">>
\* 'h://LinkedIn.com/x'
VU_linkedin ==
    <<"h", ":", "/", "/", "L", "i", "n", "k", "e", "d", "I", "n", ".", "c", "o", "m", "/", "x">>
\* 'h://joshuagerman.com/w'
VU_portfolio ==
    <<"h", ":", "/", "/", "j", "o", "s", "h", "u", "a", "g", "e", "r", "m", "a", "n", ".", "c", "o", "m", "/", "w">>
\* 'h://linkedin.com/joshuagerman.com'
VU_both ==
    <<"h", ":", "/", "/", "l", "i", "n", "k", "e", "d", "i", "n", ".", "c", "o", "m", "/", "j", "o", "s", "h", "u", "a", "g", "e", "r", "m", "a", "n", ".", "c", "o", "m">>

VerifyUrlPool == {U_empty, VU_plain, VU_linkedin, VU_portfolio, VU_both}

\* name twice (once in other case), one agency
\* 'Josh German, josh german at GS&P'
PC_two_one ==
    <<"J", "o", "s", "h", " ", "G", "e", "r", "m", "a", "n", ",", " ", "j", "o", "s", "h", " ", "g", "e", "r", "m", "a", "n", " ", "a", "t", " ", "G", "S", "&", "P">>
\* name four times, two agencies, one brand
\* 'J. German J. German J. German Josh German TBWAChiatDay GS&P levis'
PC_many ==
    <<"J", ".", " ", "G", "e", "r", "m", "a", "n", " ", "J", ".", " ", "G", "e", "r", "m", "a", "n", " ", "J", ".", " ", "G", "e", "r", "m", "a", "n", " ", "J", "o", "s", "h", " ", "G", "e", "r", "m", "a", "n", " ", "T", "B", "W", "A", "C", "h", "i", "a", "t", "D", "a", "y", " ", "G", "S", "&", "P", " ", "l", "e", "v", "i", "s">>
\* the name inside longer words, one brand
\* 'xJosh Germans BMW'
PC_glued ==
    <<"x", "J", "o", "s", "h", " ", "G", "e", "r", "m", "a", "n", "s", " ", "B", "M", "W">>
\* the configured profile URL
\* 'see h://linkedin.com/in/jg'
PC_profile ==
    <<"s", "e", "e", " ", "h", ":", "/", "/", "l", "i", "n", "k", "e", "d", "i", "n", ".", "c", "o", "m", "/", "i", "n", "/", "j", "g">>

AnswerPool ==
    { Answer("ok", c) : c \in {<<>>, PC_two_one, PC_many, PC_glued, PC_profile} }
    \cup { Answer(k, <<>>) : k \in {"http_error", "timeout", "conn_error"} }

(***************************************************************************)
(* Link validation: LinkValidator (link_validator.py)                      *)
(***************************************************************************)

\* The portfolio file: whether it can be read, its a / img / iframe
\* elements in document order, and its case-study sections.
Element(tag, url) == [tag |-> tag, url |-> url]
PortfolioFile(readable, elements, case_studies) ==
    [readable |-> readable, elements |-> elements, case_studies |-> case_studies]

\* soup.find_all(tag, href/src=True)
find_all(elements, tag) == SelectSeq(elements, LAMBDA el : el.tag = tag)

\* 'javascript:'
PREFIX_javascript ==
    <<"j", "a", "v", "a", "s", "c", "r", "i", "p", "t", ":">>
\* 'mailto:'
PREFIX_mailto ==
    <<"m", "a", "i", "l", "t", "o", ":">>
\* 'tel:'
PREFIX_tel ==
    <<"t", "e", "l", ":">>

\* LinkValidator._is_external_link
_is_external_link(url) ==
    /\ url /= <<>>
    /\ ~ \E prefix \in {<<"#">>, PREFIX_javascript, PREFIX_mailto, PREFIX_tel} :
           str_startswith(url, prefix)
    /\ urlparse(url).netloc /= <<>>

\* PortfolioParser._is_external_link
Parser_is_external_link(url) ==
    /\ url /= <<>>
    /\ ~ \E prefix \in {<<"#">>, PREFIX_javascript, PREFIX_mailto, PREFIX_tel} :
           str_startswith(url, prefix)
    /\ urlparse(url).netloc /= <<>>

\* PortfolioSourcer._is_external_link of the single-file variant
Legacy_is_external_link(url) ==
    /\ ~ (url = <<>> \/ str_startswith(url, <<"#">>)
                     \/ str_startswith(url, PREFIX_javascript))
    /\ urlparse(url).netloc /= <<>>

\* What a probe (HEAD of a URL, GET of an oEmbed URL) comes back with: an
\* HTTP status, requests.exceptions.Timeout, another RequestException, or
\* an exception that is not a RequestException.
ProbeStatus(code) == [kind |-> "status", code |-> code]
ProbeError(kind) == [kind |-> kind, code |-> 0]

\* bool results of a call that may raise
BoolReturned(b) == [exc |-> FALSE, value |-> b]
BoolRaised == [exc |-> TRUE, value |-> FALSE]

check_link_answer(response) ==
    IF response.kind = "status" THEN BoolReturned(response.code < 400)
    ELSE IF response.kind \in {"timeout", "request_error"} THEN BoolReturned(FALSE)
    ELSE BoolRaised

\* requests.head(url, ...): what the server answers; for a URL without
\* scheme and host requests raises MissingSchema, InvalidSchema or
\* InvalidURL (each a RequestException) before anything is sent
requests_head(url, remote) ==
    IF url \in DOMAIN remote THEN remote[url] ELSE ProbeError("request_error")

\* LinkValidator._check_link_valid
_check_link_valid(url, remote) == check_link_answer(requests_head(url, remote))

IdChars == Letters \cup Digits \cup {"_", "-"}

\* the indices at which literal, followed by a character of class, occurs
pattern_starts(url, literal, class) ==
    Bind(url, LAMBDA v :
        { i \in 1..(Len(v) - Len(literal)) :
            /\ \A k \in 1..Len(literal) : v[i + k - 1] = literal[k]
            /\ v[i + Len(literal)] \in class })

\* re.search(literal + '[class]+', url)
re_search(url, literal, class) == pattern_starts(url, literal, class) /= {}

first_index(starts) == CHOOSE i \in starts : \A j \in starts : i <= j

class_run_end(url, from, class) ==
    CHOOSE last \in from..Len(url) :
        /\ \A k \in from..last : url[k] \in class
        /\ last = Len(url) \/ url[last + 1] \notin class

\* match.group(1) of the leftmost match
re_group(url, literal, class, start) ==
    SubSeq(url, start + Len(literal), class_run_end(url, start + Len(literal), class))

\* 'youtube.com/embed/'
YT_embed ==
    <<"y", "o", "u", "t", "u", "b", "e", ".", "c", "o", "m", "/", "e", "m", "b", "e", "d", "/">>
\* 'youtu.be/'
YT_short ==
    <<"y", "o", "u", "t", "u", ".", "b", "e", "/">>
\* 'youtube.com/watch?v='
YT_watch ==
    <<"y", "o", "u", "t", "u", "b", "e", ".", "c", "o", "m", "/", "w", "a", "t", "c", "h", "?", "v", "=">>
\* 'youtube.com'
YOUTUBE_COM ==
    <<"y", "o", "u", "t", "u", "b", "e", ".", "c", "o", "m">>
\* 'youtu.be'
YOUTU_BE ==
    <<"y", "o", "u", "t", "u", ".", "b", "e">>
\* 'vimeo.com'
VIMEO_COM ==
    <<"v", "i", "m", "e", "o", ".", "c", "o", "m">>
\* 'vimeo.com/'
VIMEO_page ==
    <<"v", "i", "m", "e", "o", ".", "c", "o", "m", "/">>
\* 'player.vimeo.com/video/'
VIMEO_player ==
    <<"p", "l", "a", "y", "e", "r", ".", "v", "i", "m", "e", "o", ".", "c", "o", "m", "/", "v", "i", "d", "e", "o", "/">>

youtube_patterns == <<YT_embed, YT_short, YT_watch>>

youtube_format_valid(url) ==
    \E k \in DOMAIN youtube_patterns : re_search(url, youtube_patterns[k], IdChars)

\* LinkValidator._extract_youtube_id: <<>> is None, <<id>> the id
extract_with(url, literal) ==
    <<re_group(url, literal, IdChars, first_index(pattern_starts(url, literal, IdChars)))>>

_extract_youtube_id(url) ==
    IF re_search(url, YT_embed, IdChars) THEN extract_with(url, YT_embed)
    ELSE IF re_search(url, YT_short, IdChars) THEN extract_with(url, YT_short)
    ELSE IF re_search(url, YT_watch, IdChars) THEN extract_with(url, YT_watch)
    ELSE <<>>

\* 'https://www.youtube.com/oembed?url=https://www.youtube.com/watch?v='
OEMBED_prefix ==
    <<"h", "t", "t", "p", "s", ":", "/", "/", "w", "w", "w", ".", "y", "o", "u", "t", "u", "b", "e", ".", "c", "o", "m", "/", "o", "e", "m", "b", "e", "d", "?", "u", "r", "l", "=", "h", "t", "t", "p", "s", ":", "/", "/", "w", "w", "w", ".", "y", "o", "u", "t", "u", "b", "e", ".", "c", "o", "m", "/", "w", "a", "t", "c", "h", "?", "v", "=">>
\* '&format=json'
OEMBED_suffix ==
    <<"&", "f", "o", "r", "m", "a", "t", "=", "j", "s", "o", "n">>

oembed_url(video_id) == OEMBED_prefix \o video_id \o OEMBED_suffix

\* Mutant: a failed existence check makes the video broken.
oembed_answer_strict(response) ==
    response.kind = "status" /\ response.code = 200

\* response.status_code == 200; except Exception: return True
oembed_answer(response) ==
    IF response.kind = "status" THEN response.code = 200 ELSE TRUE

youtube_check_id(video_id, remote) ==
    IF video_id = <<>> \/ video_id[1] = <<>> THEN FALSE
    ELSE oembed_answer(remote[oembed_url(video_id[1])])

\* LinkValidator._validate_youtube_url
_validate_youtube_url(url, remote) ==
    IF ~youtube_format_valid(url) THEN FALSE
    ELSE youtube_check_id(_extract_youtube_id(url), remote)

\* LinkValidator._validate_vimeo_url
_validate_vimeo_url(url) ==
    re_search(url, VIMEO_page, Digits) \/ re_search(url, VIMEO_player, Digits)

is_youtube(url) == str_contains(url, YOUTUBE_COM) \/ str_contains(url, YOUTU_BE)
is_vimeo(url) == str_contains(url, VIMEO_COM)

\* LinkValidator._check_video_valid
_check_video_valid(url, remote) ==
    IF is_youtube(url) THEN BoolReturned(_validate_youtube_url(url, remote))
    ELSE IF is_vimeo(url) THEN BoolReturned(_validate_vimeo_url(url))
    ELSE _check_link_valid(url, remote)

\* LinkValidator._get_video_type
_get_video_type(url) ==
    IF is_youtube(url) THEN "youtube"
    ELSE IF is_vimeo(url) THEN "vimeo"
    ELSE "unknown"

\* the three lists a LinkValidator holds; exc = an exception is propagating
Validator(links, images, videos) ==
    [broken_links |-> links, broken_images |-> images, broken_videos |-> videos,
     exc |-> FALSE]

BrokenEntry(url, type) == [url |-> url, type |-> type]

link_checked(st, href, valid) ==
    IF valid.exc THEN [st EXCEPT !.exc = TRUE]
    ELSE IF ~valid.value
         THEN [st EXCEPT !.broken_links = Append(@, BrokenEntry(href, "link"))]
         ELSE st

\* Mutant: every href is checked, external or not.
validate_link_unfiltered(st, href, remote) ==
    link_checked(st, href, _check_link_valid(href, remote))

validate_link(st, href, remote) ==
    IF _is_external_link(href)
    THEN link_checked(st, href, _check_link_valid(href, remote))
    ELSE st

\* LinkValidator._validate_links
RECURSIVE _validate_links(_, _, _)
_validate_links(st, links, remote) ==
    IF links = <<>> \/ st.exc THEN st
    ELSE _validate_links(validate_link(st, Head(links).url, remote), Tail(links), remote)

image_checked(st, src, valid) ==
    IF valid.exc THEN [st EXCEPT !.exc = TRUE]
    ELSE IF ~valid.value
         THEN [st EXCEPT !.broken_images = Append(@, BrokenEntry(src, "image"))]
         ELSE st

validate_image(st, src, remote) ==
    IF _is_external_link(src)
    THEN image_checked(st, src, _check_link_valid(src, remote))
    ELSE st

\* LinkValidator._validate_images
RECURSIVE _validate_images(_, _, _)
_validate_images(st, images, remote) ==
    IF images = <<>> \/ st.exc THEN st
    ELSE _validate_images(validate_image(st, Head(images).url, remote), Tail(images), remote)

video_checked(st, src, valid) ==
    IF valid.exc THEN [st EXCEPT !.exc = TRUE]
    ELSE IF ~valid.value
         THEN [st EXCEPT !.broken_videos = Append(@, BrokenEntry(src, _get_video_type(src)))]
         ELSE st

\* LinkValidator._validate_videos
RECURSIVE _validate_videos(_, _, _)
_validate_videos(st, iframes, remote) ==
    IF iframes = <<>> \/ st.exc THEN st
    ELSE _validate_videos(video_checked(st, Head(iframes).url,
                                        _check_video_valid(Head(iframes).url, remote)),
                          Tail(iframes), remote)

\* the try block of validate_all; open() raises on a file that cannot be read
validate_all_try(st, file, remote) ==
    IF ~file.readable THEN [st EXCEPT !.exc = TRUE]
    ELSE _validate_videos(
             _validate_images(
                 _validate_links(st, find_all(file.elements, "a"), remote),
                 find_all(file.elements, "img"), remote),
             find_all(file.elements, "iframe"), remote)

\* validate_all without its `except Exception`
validate_all_unguarded(st, file, remote) == validate_all_try(st, file, remote)

\* LinkValidator.validate_all: the validator after the call; the lists it
\* holds are what the call returns
validate_all(st, file, remote) ==
    [validate_all_try(st, file, remote) EXCEPT !.exc = FALSE]

\* the dictionary validate_all returns, as it reads when it is returned
validation_results_of(st) ==
    [broken_links |-> st.broken_links, broken_images |-> st.broken_images,
     broken_videos |-> st.broken_videos]

\* The URLs for which validate_all may reach a server: the external
\* anchors and images, the oEmbed URLs of the YouTube iframes, the other
\* iframes that have a host.
element_targets(el) ==
    IF el.tag = "iframe"
    THEN IF is_youtube(el.url)
         THEN { oembed_url(id) : id \in { i \in { _extract_youtube_id(el.url)[k] :
                                   k \in DOMAIN _extract_youtube_id(el.url) } : i /= <<>> } }
         ELSE IF is_vimeo(el.url) THEN {}
         ELSE IF _is_external_link(el.url) THEN {el.url} ELSE {}
    ELSE IF _is_external_link(el.url) THEN {el.url} ELSE {}

probe_targets(file) ==
    IF ~file.readable THEN {}
    ELSE UNION { element_targets(file.elements[k]) : k \in DOMAIN file.elements }

(***************************************************************************)
(* Discovery, parsing and reporting as run_full_scan calls them            *)
(***************************************************************************)

\* DiscoveryEngine.generate_search_queries: how many queries it returns
\* (a configuration without search_sources and writing_sources)
query_count(config) ==
    Len(config.verification_names) * 5
    + Len(config.verification_names) * int_min(Len(config.known_agencies), 3)
    + Len(config.known_brands) * int_min(Len(config.verification_names), 3)
    + (IF config.linkedin_url /= <<>> THEN 2 ELSE 0)

\* What the search API does with a query: it returns results or raises
SearchReturns(results) == [kind |-> "returns", results |-> results]
SearchRaises == [kind |-> "raises", results |-> <<>>]

\* DiscoveryEngine.perform_search; api = FALSE when no search_api is given
perform_search(api, outcome) ==
    IF api /\ outcome.kind = "returns" THEN outcome.results ELSE <<>>

valid_parsed(parsed) == parsed.scheme /= <<>> /\ parsed.netloc /= <<>>

\* DiscoveryEngine._is_valid_url
_is_valid_url(url) == valid_parsed(urlparse(url))

\* DiscoveryEngine.extract_projects_from_results
extract_projects_from_results(results) ==
    SelectSeq(results, LAMBDA r : is_str(r.url) /\ r.url /= <<>> /\ _is_valid_url(r.url))

\* VerificationSystem.verify_multiple_projects: the record with the
\* verification metadata attached
annotate(project, result) ==
    [url |-> project.url, title |-> project.title,
     verification_score |-> result.score,
     verification_evidence |-> result.evidence,
     verified |-> result.is_verified]

\* A case-study section of the portfolio: its title element (<<>> when it
\* has none, <<t>> otherwise) and its id attribute ('' when it has none)
CaseStudy(title, id) == [title |-> title, id |-> id]

\* PortfolioParser.extract_projects (title and id; a section with neither
\* yields no project)
extract_projects(file) ==
    IF ~file.readable THEN <<>>
    ELSE SelectSeq(file.case_studies, LAMBDA cs : cs.title /= <<>> \/ cs.id /= <<>>)

\* p.get('title', '')
get_title(p) == IF p.title = <<>> THEN <<>> ELSE p.title[1]

TitleThreshold == Frac(7, 10)

titles_overlap(words1, words2) ==
    /\ words1 /= {} /\ words2 /= {}
    /\ ~FracLt(Frac(Cardinality(words1 \cap words2), Cardinality(words1 \cup words2)),
               TitleThreshold)

\* PortfolioParser._titles_similar
_titles_similar(title1, title2) ==
    /\ title1 /= <<>> /\ title2 /= <<>>
    /\ titles_overlap(str_split(str_lower(title1)), str_split(str_lower(title2)))

is_new_project(discovered, existing) ==
    /\ ~ \E k \in DOMAIN existing :
           _titles_similar(str_lower(discovered.title), str_lower(get_title(existing[k])))
    /\ ~ ( /\ discovered.url /= <<>>
           /\ \E k \in DOMAIN existing :
                 str_contains(str_lower(discovered.url), existing[k].id) )

filter_new(discovered_projects, existing) ==
    SelectSeq(discovered_projects, LAMBDA p : is_new_project(p, existing))

\* PortfolioParser.compare_with_discovered
compare_with_discovered(file, discovered_projects) ==
    filter_new(discovered_projects, extract_projects(file))

\* PortfolioParser.extract_all_links: how many it returns
count_external(elements) ==
    Cardinality({ k \in DOMAIN elements : _is_external_link(elements[k].url) })

\* PortfolioParser.get_portfolio_structure ({} when the file was not loaded)
get_portfolio_structure(file) ==
    IF ~file.readable
    THEN [empty |-> TRUE, total_links |-> 0, total_projects |-> 0]
    ELSE [empty |-> FALSE, total_links |-> count_external(file.elements),
          total_projects |-> Len(extract_projects(file))]

\* ReportGenerator._generate_summary
_generate_summary(verified, validation, new) ==
    [total_verified_projects |-> Len(verified),
     new_projects_found |-> Len(new),
     broken_links_count |-> Len(validation.broken_links),
     broken_images_count |-> Len(validation.broken_images),
     broken_videos_count |-> Len(validation.broken_videos),
     total_issues |-> Len(validation.broken_links) + Len(validation.broken_images)
                        + Len(validation.broken_videos)]

\* recommendation sentences: the kind of sentence and the number it quotes
Rec(kind, n) == [kind |-> kind, n |-> n]

rec_if(cond, rec) == IF cond THEN <<rec>> ELSE <<>>

\* the sentences for the first five new projects
rec_projects(new) ==
    [k \in 1..int_min(Len(new), 5) |-> Rec("project", new[k].verification_score)]

\* Mutant: the full-health sentence is appended only when nothing else was
\* recommended.
_generate_recommendations_healthy_alone(verified, validation, new) ==
    rec_if(validation.broken_links /= <<>>, Rec("fix_links", Len(validation.broken_links)))
    \o rec_if(validation.broken_images /= <<>>,
              Rec("replace_images", Len(validation.broken_images)))
    \o rec_if(validation.broken_videos /= <<>>,
              Rec("fix_videos", Len(validation.broken_videos)))
    \o rec_if(new /= <<>>, Rec("add_projects", Len(new)))
    \o rec_projects(new)
    \o rec_if(/\ validation.broken_links = <<>>
              /\ validation.broken_images = <<>>
              /\ validation.broken_videos = <<>>
              /\ new = <<>>, Rec("healthy", 0))

\* ReportGenerator._generate_recommendations
_generate_recommendations(verified, validation, new) ==
    rec_if(validation.broken_links /= <<>>, Rec("fix_links", Len(validation.broken_links)))
    \o rec_if(validation.broken_images /= <<>>,
              Rec("replace_images", Len(validation.broken_images)))
    \o rec_if(validation.broken_videos /= <<>>,
              Rec("fix_videos", Len(validation.broken_videos)))
    \o rec_if(new /= <<>>, Rec("add_projects", Len(new)))
    \o rec_projects(new)
    \o rec_if(/\ validation.broken_links = <<>>
              /\ validation.broken_images = <<>>
              /\ validation.broken_videos = <<>>, Rec("healthy", 0))

\* ReportGenerator.generate_report
generate_report(verified, validation, structure, new) ==
    [summary |-> _generate_summary(verified, validation, new),
     verified_projects |-> verified,
     validation_results |-> validation,
     new_projects |-> new,
     recommendations |-> _generate_recommendations(verified, validation, new),
     portfolio_structure |-> structure]

\* the report before generate_report has run
NoReport ==
    generate_report(<<>>, validation_results_of(Validator(<<>>, <<>>, <<>>)),
                    get_portfolio_structure(PortfolioFile(FALSE, <<>>, <<>>)), <<>>)

(***************************************************************************)
(* Portfolio files, probe answers and search results the runs are given    *)
(***************************************************************************)

\* 'h://s/a'
EU_anchor ==
    <<"h", ":", "/", "/", "s", "/", "a">>
\* '#top'
EU_local ==
    <<"#", "t", "o", "p">>
\* 'h://s/i'
EU_img ==
    <<"h", ":", "/", "/", "s", "/", "i">>
\* 'i.png'
EU_img_local ==
    <<"i", ".", "p", "n", "g">>
\* 'h://youtube.com/embed/v1'
EU_youtube ==
    <<"h", ":", "/", "/", "y", "o", "u", "t", "u", "b", "e", ".", "c", "o", "m", "/", "e", "m", "b", "e", "d", "/", "v", "1">>
\* 'h://vimeo.com/12'
EU_vimeo ==
    <<"h", ":", "/", "/", "v", "i", "m", "e", "o", ".", "c", "o", "m", "/", "1", "2">>
\* 'h://s/v'
EU_video ==
    <<"h", ":", "/", "/", "s", "/", "v">>
\* 'h://youtu.be/v2'
EU_youtube_short ==
    <<"h", ":", "/", "/", "y", "o", "u", "t", "u", ".", "b", "e", "/", "v", "2">>
\* 'h://youtube.com/watch?v=v3'
EU_youtube_watch ==
    <<"h", ":", "/", "/", "y", "o", "u", "t", "u", "b", "e", ".", "c", "o", "m", "/", "w", "a", "t", "c", "h", "?", "v", "=", "v", "3">>
\* 'v.html'
EU_frame_local ==
    <<"v", ".", "h", "t", "m", "l">>

ElementPool ==
    { Element("a", EU_anchor), Element("a", EU_local),
      Element("img", EU_img), Element("img", EU_img_local),
      Element("iframe", EU_youtube), Element("iframe", EU_vimeo),
      Element("iframe", EU_video), Element("iframe", EU_youtube_short),
      Element("iframe", EU_youtube_watch), Element("iframe", EU_frame_local) }

\* the most elements a portfolio file of the validation runs holds
MaxElements == 2

MarkupLists == UNION { [1..n -> ElementPool] : n \in 0..MaxElements }

ProbeAnswers ==
    { ProbeStatus(200), ProbeStatus(204), ProbeStatus(404), ProbeError("timeout"),
      ProbeError("request_error"), ProbeError("other_error") }

\* the most calls of validate_links_only on one PortfolioSourcer
MaxRuns == 2

\* the files of the full scans: one that cannot be read, one with a single
\* anchor, one with every kind of element and two case studies
ScanFiles ==
    { PortfolioFile(FALSE, <<>>, <<>>),
      PortfolioFile(TRUE, <<Element("a", EU_anchor)>>, <<>>),
      PortfolioFile(TRUE,
                    <<Element("a", EU_anchor), Element("a", EU_local),
                      Element("img", EU_img), Element("iframe", EU_youtube),
                      Element("iframe", EU_vimeo)>>,
                    <<CaseStudy(<<T_g>>, <<"x">>), CaseStudy(<<>>, <<>>)>>) }

\* the configurations of the full scans: one name, one agency, one brand,
\* the default threshold
ScanConfig(linkedin_url, portfolio_url) ==
    [Config(3, linkedin_url, portfolio_url) EXCEPT
        !.verification_names = <<CFG_verification_names[1]>>,
        !.known_agencies = <<CFG_known_agencies[2]>>,
        !.known_brands = <<CFG_known_brands[2]>>]

ScanConfigs ==
    { ScanConfig(CFG_linkedin_url, CFG_portfolio_url), ScanConfig(<<>>, <<>>) }

\* what the search API returns when it returns something: a record with
\* both URL signals, one without scheme and host, a plain one
SearchResults ==
    <<Candidate(VU_both, T_abcde), Candidate(U_rel, T_k), Candidate(VU_plain, T_g)>>

SearchOutcomes == {SearchRaises, SearchReturns(<<>>), SearchReturns(SearchResults)}

\* results with a field that holds no str: a title of None, a url of None
MalformedResults ==
    <<Candidate(VU_plain, NotAString), Candidate(NotAString, T_g)>>

(***************************************************************************)
(* State                                                                   *)
(***************************************************************************)

VARIABLES
    dpc,          \* deduplication: "off", "loop" (inside the for loop), "done"
    variant,      \* "engine" (DiscoveryEngine) or "legacy" (PortfolioSourcer)
    d_input,      \* the list given to the first call
    projects,     \* the argument of the call in progress
    pos,          \* how many records of projects the loop has visited
    seen_urls, seen_titles, unique,    \* the locals of the call
    kept,         \* history: indices into projects of the records appended
    pass,         \* 1: the call on d_input, 2: the call on its output,
                  \* 3: a second call on d_input
    first_out,    \* the list the first call returned
    vpc,          \* verification: "off", "ready", "verified", "compared"
    verifier,     \* "system" (VerificationSystem) or "legacy" (PortfolioSourcer)
    vself,        \* the configuration the verifier was constructed with
    vproject,     \* the record being verified
    vnet,         \* what the network answers to the GET of its URL
    vresult,      \* what verify_attribution returned
    vself2,       \* a second verifier: vself with another threshold
    vresult2,     \* what the second verifier returned for the same record
    spc,          \* PortfolioSourcer: "off", "idle", the step run_full_scan
                  \* is at, "done", or "raised" (an exception left the scan)
    s_config,     \* self.config
    search_api,   \* whether run_full_scan is given a search_api
    file,         \* the portfolio file
    remote,       \* validation runs: what each probed URL answers, every time
    link_validator,       \* self.link_validator: its three lists
    lo_reports,           \* the reports validate_links_only has returned
    queries_done,         \* discover_projects: queries searched so far
    all_projects,         \* discover_projects: all_projects
    discovered_projects, checked, verified_projects,
    validation_results, portfolio_structure, new_projects, report,
    saved,        \* the reports save_report has written
    any_probe,    \* history: the scan has made a network probe
    any_ok,       \* history: a probe of the scan has succeeded
    mpc,          \* the process: "off", "start", "constructed", "scanning"
                  \* (the single-file run_full_scan was called), "exited"
    entry,        \* the entry point: "package" or "legacy" (single file)
    config_doc,   \* the configuration document: "valid", "missing", "malformed"
    config_from,  \* what self.config holds: "none", "document", "defaults"
    exit_status,  \* the exit status of the process, -1 while it runs
    fn,           \* a function called on its own: its name, "off" if none
    args,         \* the arguments it is called with
    rets          \* what its calls returned, by the name of the call

dedup_vars == <<dpc, variant, d_input, projects, pos, seen_urls, seen_titles,
                unique, kept, pass, first_out>>

verify_vars == <<vpc, verifier, vself, vproject, vnet, vresult, vself2, vresult2>>

scan_vars == <<spc, s_config, search_api, file, remote, link_validator, lo_reports,
               queries_done, all_projects, discovered_projects, checked,
               verified_projects, validation_results, portfolio_structure,
               new_projects, report, saved, any_probe, any_ok>>

main_vars == <<mpc, entry, config_doc, config_from, exit_status>>

call_vars == <<fn, args, rets>>

vars == <<dedup_vars, verify_vars, scan_vars, main_vars, call_vars>>

(***************************************************************************)
(* Deduplication as a state machine: one action per loop iteration         *)
(***************************************************************************)

\* the values the variables of a component have while it is not running
DedupOff ==
    /\ dpc = "off" /\ variant = "engine" /\ d_input = <<>> /\ projects = <<>>
    /\ pos = 0 /\ seen_urls = {} /\ seen_titles = {} /\ unique = <<>>
    /\ kept = <<>> /\ pass = 1 /\ first_out = <<>>

NoResult == Result(FALSE, 0, <<>>, FALSE)

VerifyOff ==
    /\ vpc = "off" /\ verifier = "system"
    /\ vself = Config(0, <<>>, <<>>) /\ vself2 = Config(0, <<>>, <<>>)
    /\ vproject = Candidate(<<>>, <<>>) /\ vnet = Answer("ok", <<>>)
    /\ vresult = NoResult /\ vresult2 = NoResult

\* the locals of run_full_scan before it runs
ScanLocals0 ==
    /\ queries_done = 0 /\ all_projects = <<>> /\ discovered_projects = <<>>
    /\ checked = <<>> /\ verified_projects = <<>>
    /\ validation_results = validation_results_of(Validator(<<>>, <<>>, <<>>))
    /\ portfolio_structure = get_portfolio_structure(PortfolioFile(FALSE, <<>>, <<>>))
    /\ new_projects = <<>> /\ report = NoReport /\ saved = <<>>
    /\ any_probe = FALSE /\ any_ok = FALSE

ScanOff ==
    /\ spc = "off" /\ s_config = Config(0, <<>>, <<>>) /\ search_api = FALSE
    /\ file = PortfolioFile(FALSE, <<>>, <<>>) /\ remote = <<>>
    /\ link_validator = Validator(<<>>, <<>>, <<>>) /\ lo_reports = <<>>
    /\ ScanLocals0

MainOff ==
    /\ mpc = "off" /\ entry = "package" /\ config_doc = "valid"
    /\ config_from = "none" /\ exit_status = 0 - 1

CallOff == fn = "off" /\ args = <<>> /\ rets = <<>>

InitDedup ==
    /\ dpc = "loop"
    /\ variant \in {"engine", "legacy"}
    /\ d_input \in CandidateLists
    /\ projects = d_input
    /\ pos = 0 /\ seen_urls = {} /\ seen_titles = {} /\ unique = <<>>
    /\ kept = <<>> /\ pass = 1 /\ first_out = <<>>
    /\ VerifyOff
    /\ ScanOff
    /\ MainOff /\ CallOff

LoopState == [seen_urls |-> seen_urls, seen_titles |-> seen_titles,
              unique |-> unique]

\* for project in projects: ...
DedupIter ==
    /\ dpc = "loop"
    /\ pos < Len(projects)
    /\ ~lower_raises(projects[pos + 1])
    /\ \E next \in { IF variant = "engine"
                     THEN deduplicate_step(LoopState, projects[pos + 1])
                     ELSE Legacy_deduplicate_step(LoopState, projects[pos + 1]) } :
           /\ seen_urls' = next.seen_urls
           /\ seen_titles' = next.seen_titles
           /\ unique' = next.unique
           /\ kept' = IF Len(next.unique) > Len(unique)
                      THEN Append(kept, pos + 1) ELSE kept
    /\ pos' = pos + 1
    /\ UNCHANGED <<dpc, variant, d_input, projects, pass, first_out>>
    /\ UNCHANGED <<verify_vars, scan_vars, main_vars, call_vars>>

\* for project in projects: url or title of the record has no lower(); the
\* AttributeError leaves the loop and the function
DedupRaise ==
    /\ dpc = "loop"
    /\ pos < Len(projects)
    /\ lower_raises(projects[pos + 1])
    /\ dpc' = "raised"
    /\ UNCHANGED <<variant, d_input, projects, pos, seen_urls, seen_titles,
                   unique, kept, pass, first_out>>
    /\ UNCHANGED <<verify_vars, scan_vars, main_vars, call_vars>>

\* return unique
DedupReturn ==
    /\ dpc = "loop"
    /\ pos = Len(projects)
    /\ dpc' = "done"
    /\ first_out' = IF pass = 1 THEN unique ELSE first_out
    /\ UNCHANGED <<variant, d_input, projects, pos, seen_urls, seen_titles,
                   unique, kept, pass>>
    /\ UNCHANGED <<verify_vars, scan_vars, main_vars, call_vars>>

\* the caller passes the returned list to the same function again
DedupAgain ==
    /\ dpc = "done"
    /\ pass = 1
    /\ pass' = 2
    /\ projects' = unique
    /\ pos' = 0 /\ seen_urls' = {} /\ seen_titles' = {} /\ unique' = <<>>
    /\ kept' = <<>>
    /\ dpc' = "loop"
    /\ UNCHANGED <<variant, d_input, first_out>>
    /\ UNCHANGED <<verify_vars, scan_vars, main_vars, call_vars>>

NextDedup == DedupIter \/ DedupReturn \/ DedupAgain

\* the caller passes the list of the first call to the same function again
DedupRepeat ==
    /\ dpc = "done"
    /\ pass = 1
    /\ pass' = 3
    /\ projects' = d_input
    /\ pos' = 0 /\ seen_urls' = {} /\ seen_titles' = {} /\ unique' = <<>>
    /\ kept' = <<>>
    /\ dpc' = "loop"
    /\ UNCHANGED <<variant, d_input, first_out>>
    /\ UNCHANGED <<verify_vars, scan_vars, main_vars, call_vars>>

NextDedupRepeat == DedupIter \/ DedupReturn \/ DedupRepeat

SpecDedupRepeat == InitDedup /\ [][NextDedupRepeat]_vars

SpecDedup == InitDedup /\ [][NextDedup]_vars

(***************************************************************************)
(* Verification as a state machine: a verifier is constructed from a       *)
(* configuration and verifies one record; a second verifier, constructed   *)
(* from the same configuration with another threshold, verifies the same   *)
(* record against the same network answer.                                 *)
(***************************************************************************)

InitVerify ==
    /\ vpc = "ready"
    /\ verifier \in {"system", "legacy"}
    /\ vself \in ConfigPool
    /\ \E t \in Thresholds : vself2 = [vself EXCEPT !.verification_threshold = t]
    /\ \E u \in VerifyUrlPool : vproject = Candidate(u, T_g)
    /\ vnet \in AnswerPool
    /\ vresult = NoResult /\ vresult2 = NoResult
    /\ DedupOff
    /\ ScanOff
    /\ MainOff /\ CallOff

run_verifier(which, self, project, net) ==
    IF which = "system"
    THEN verify_attribution(self, project, net)
    ELSE Legacy_verify_attribution(self, project, net)

\* is_verified, score, evidence = verifier.verify_attribution(project)
Verify ==
    /\ vpc = "ready"
    /\ vresult' = run_verifier(verifier, vself, vproject, vnet)
    /\ vpc' = "verified"
    /\ UNCHANGED <<verifier, vself, vproject, vnet, vself2, vresult2>>
    /\ UNCHANGED <<dedup_vars, scan_vars, main_vars, call_vars>>

\* the same call on the verifier with the other threshold
VerifyOther ==
    /\ vpc = "verified"
    /\ vresult2' = run_verifier(verifier, vself2, vproject, vnet)
    /\ vpc' = "compared"
    /\ UNCHANGED <<verifier, vself, vproject, vnet, vself2, vresult>>
    /\ UNCHANGED <<dedup_vars, scan_vars, main_vars, call_vars>>

NextVerify == Verify \/ VerifyOther

SpecVerify == InitVerify /\ [][NextVerify]_vars

(***************************************************************************)
(* Link validation as a state machine: validate_links_only is called on    *)
(* one PortfolioSourcer, again and again, the file and the answers of the  *)
(* remote servers staying what they are.                                   *)
(***************************************************************************)

InitValidate ==
    /\ spc = "idle"
    /\ s_config = Config(3, <<>>, <<>>) /\ search_api = FALSE
    /\ \E m \in MarkupLists : file = PortfolioFile(TRUE, m, <<>>)
    /\ remote \in [probe_targets(file) -> ProbeAnswers]
    /\ link_validator = Validator(<<>>, <<>>, <<>>) /\ lo_reports = <<>>
    /\ ScanLocals0
    /\ DedupOff /\ VerifyOff
    /\ MainOff /\ CallOff

\* the report validate_links_only builds from what validate_all returned
links_only_report(validation) ==
    [validation_results |-> validation,
     summary |-> [broken_links_count |-> Len(validation.broken_links),
                  broken_images_count |-> Len(validation.broken_images),
                  broken_videos_count |-> Len(validation.broken_videos)]]

\* The reports returned earlier hold the validator's own list objects, so
\* their validation_results read as the lists read now; their summary counts
\* are integers taken when they were built.
aliased(reports, validation) ==
    [k \in DOMAIN reports |-> [reports[k] EXCEPT !.validation_results = validation]]

\* PortfolioSourcer.validate_links_only
ValidateLinksOnly ==
    /\ spc = "idle"
    /\ Len(lo_reports) < MaxRuns
    /\ \E v \in {validate_all(link_validator, file, remote)} :
           /\ link_validator' = v
           /\ lo_reports' = Append(aliased(lo_reports, validation_results_of(v)),
                                   links_only_report(validation_results_of(v)))
    /\ UNCHANGED <<spc, s_config, search_api, file, remote, queries_done,
                   all_projects, discovered_projects, checked, verified_projects,
                   validation_results, portfolio_structure, new_projects, report,
                   saved, any_probe, any_ok>>
    /\ UNCHANGED <<dedup_vars, verify_vars, main_vars, call_vars>>

NextValidate == ValidateLinksOnly

SpecValidate == InitValidate /\ [][NextValidate]_vars

(***************************************************************************)
(* run_full_scan as a state machine: one action per step of the scan, one  *)
(* per iteration of the search and verification loops.  What a probe       *)
(* answers is chosen when the probe is made.                               *)
(***************************************************************************)

InitScan ==
    /\ spc = "idle"
    /\ s_config \in ScanConfigs
    /\ search_api \in BOOLEAN
    /\ file \in ScanFiles
    /\ remote = <<>>
    /\ link_validator = Validator(<<>>, <<>>, <<>>) /\ lo_reports = <<>>
    /\ ScanLocals0
    /\ DedupOff /\ VerifyOff
    /\ MainOff /\ CallOff

\* sourcer.run_full_scan(search_api) is called
ScanStart ==
    /\ spc = "idle"
    /\ saved = <<>>
    /\ spc' = "discovering"
    /\ UNCHANGED <<s_config, search_api, file, remote, link_validator, lo_reports,
                   queries_done, all_projects, discovered_projects, checked,
                   verified_projects, validation_results, portfolio_structure,
                   new_projects, report, saved, any_probe, any_ok>>
    /\ UNCHANGED <<dedup_vars, verify_vars, main_vars, call_vars>>

\* discover_projects: one iteration of `for i, query in enumerate(queries)`,
\* the search API doing one of outcomes
ScanSearchFrom(outcomes) ==
    /\ spc = "discovering"
    /\ queries_done < query_count(s_config)
    /\ \E outcome \in outcomes :
           /\ all_projects' = all_projects \o
                  extract_projects_from_results(perform_search(search_api, outcome))
           /\ any_probe' = (any_probe \/ search_api)
           /\ any_ok' = (any_ok \/ (search_api /\ outcome.kind = "returns"))
    /\ queries_done' = queries_done + 1
    /\ UNCHANGED <<spc, s_config, search_api, file, remote, link_validator,
                   lo_reports, discovered_projects, checked, verified_projects,
                   validation_results, portfolio_structure, new_projects, report,
                   saved>>
    /\ UNCHANGED <<dedup_vars, verify_vars, main_vars, call_vars>>

\* the search API returns well-formed records
ScanSearch == ScanSearchFrom(SearchOutcomes)

\* the search API may also return malformed records
ScanSearchAny == ScanSearchFrom(SearchOutcomes \cup {SearchReturns(MalformedResults)})

\* discover_projects: self.deduplicate_projects(all_projects) is called; its
\* loop runs as DedupIter and DedupReturn
ScanDeduplicate ==
    /\ spc = "discovering"
    /\ queries_done = query_count(s_config)
    /\ spc' = "deduplicating"
    /\ dpc' = "loop" /\ variant' = "engine"
    /\ d_input' = all_projects /\ projects' = all_projects
    /\ pos' = 0 /\ seen_urls' = {} /\ seen_titles' = {} /\ unique' = <<>>
    /\ kept' = <<>> /\ pass' = 1 /\ first_out' = <<>>
    /\ UNCHANGED <<s_config, search_api, file, remote, link_validator, lo_reports,
                   queries_done, all_projects, discovered_projects, checked,
                   verified_projects, validation_results, portfolio_structure,
                   new_projects, report, saved, any_probe, any_ok>>
    /\ UNCHANGED <<verify_vars, main_vars, call_vars>>

\* deduplicate_projects raised: discover_projects calls it outside its try
\* and run_full_scan has none, the exception leaves the scan
ScanDedupRaised ==
    /\ spc = "deduplicating"
    /\ dpc = "raised"
    /\ spc' = "raised"
    /\ UNCHANGED <<s_config, search_api, file, remote, link_validator, lo_reports,
                   queries_done, all_projects, discovered_projects, checked,
                   verified_projects, validation_results, portfolio_structure,
                   new_projects, report, saved, any_probe, any_ok>>
    /\ UNCHANGED <<dedup_vars, verify_vars, main_vars, call_vars>>

\* discover_projects returns unique_projects
ScanDiscovered ==
    /\ spc = "deduplicating"
    /\ dpc = "done"
    /\ discovered_projects' = unique
    /\ spc' = "verifying"
    /\ UNCHANGED <<s_config, search_api, file, remote, link_validator, lo_reports,
                   queries_done, all_projects, checked, verified_projects,
                   validation_results, portfolio_structure, new_projects, report,
                   saved, any_probe, any_ok>>
    /\ UNCHANGED <<dedup_vars, verify_vars, main_vars, call_vars>>

\* verify_multiple_projects: one iteration of `for project in projects`
ScanVerifyOne ==
    /\ spc = "verifying"
    /\ Len(checked) < Len(discovered_projects)
    /\ \E net \in AnswerPool :
         \E p \in {discovered_projects[Len(checked) + 1]} :
           \E r \in {verify_attribution(s_config, p, net)} :
              /\ checked' = Append(checked, annotate(p, r))
              /\ verified_projects' =
                    IF r.is_verified THEN Append(verified_projects, annotate(p, r))
                    ELSE verified_projects
              /\ any_probe' = (any_probe \/ p.url /= <<>>)
              /\ any_ok' = (any_ok \/ (p.url /= <<>> /\ net.kind = "ok"))
    /\ UNCHANGED <<spc, s_config, search_api, file, remote, link_validator,
                   lo_reports, queries_done, all_projects, discovered_projects,
                   validation_results, portfolio_structure, new_projects, report,
                   saved>>
    /\ UNCHANGED <<dedup_vars, verify_vars, main_vars, call_vars>>

\* verify_multiple_projects returns
ScanVerifyReturn ==
    /\ spc = "verifying"
    /\ Len(checked) = Len(discovered_projects)
    /\ spc' = "validating"
    /\ UNCHANGED <<s_config, search_api, file, remote, link_validator, lo_reports,
                   queries_done, all_projects, discovered_projects, checked,
                   verified_projects, validation_results, portfolio_structure,
                   new_projects, report, saved, any_probe, any_ok>>
    /\ UNCHANGED <<dedup_vars, verify_vars, main_vars, call_vars>>

probe_ok(response) == response.kind = "status" /\ response.code < 400

\* Step 3: validation_results = self.link_validator.validate_all()
ScanValidate ==
    /\ spc = "validating"
    /\ \E answers \in [probe_targets(file) -> ProbeAnswers] :
         \E v \in {validate_all(link_validator, file, answers)} :
           /\ link_validator' = [v EXCEPT !.exc = FALSE]
           /\ validation_results' = validation_results_of(v)
           /\ spc' = IF v.exc THEN "raised" ELSE "parsing"
           /\ any_probe' = (any_probe \/ probe_targets(file) /= {})
           /\ any_ok' = (any_ok \/ \E t \in DOMAIN answers : probe_ok(answers[t]))
    /\ UNCHANGED <<s_config, search_api, file, remote, lo_reports, queries_done,
                   all_projects, discovered_projects, checked, verified_projects,
                   portfolio_structure, new_projects, report, saved>>
    /\ UNCHANGED <<dedup_vars, verify_vars, main_vars, call_vars>>

\* Step 4: portfolio_structure = self.portfolio_parser.get_portfolio_structure()
ScanParse ==
    /\ spc = "parsing"
    /\ portfolio_structure' = get_portfolio_structure(file)
    /\ spc' = "comparing"
    /\ UNCHANGED <<s_config, search_api, file, remote, link_validator, lo_reports,
                   queries_done, all_projects, discovered_projects, checked,
                   verified_projects, validation_results, new_projects, report,
                   saved, any_probe, any_ok>>
    /\ UNCHANGED <<dedup_vars, verify_vars, main_vars, call_vars>>

\* Step 5: new_projects = self.portfolio_parser.compare_with_discovered(...)
ScanCompare ==
    /\ spc = "comparing"
    /\ new_projects' = compare_with_discovered(file, verified_projects)
    /\ spc' = "reporting"
    /\ UNCHANGED <<s_config, search_api, file, remote, link_validator, lo_reports,
                   queries_done, all_projects, discovered_projects, checked,
                   verified_projects, validation_results, portfolio_structure,
                   report, saved, any_probe, any_ok>>
    /\ UNCHANGED <<dedup_vars, verify_vars, main_vars, call_vars>>

\* Step 6: report = self.report_generator.generate_report(...)
ScanReport ==
    /\ spc = "reporting"
    /\ report' = generate_report(verified_projects, validation_results,
                                 portfolio_structure, new_projects)
    /\ spc' = "saving"
    /\ UNCHANGED <<s_config, search_api, file, remote, link_validator, lo_reports,
                   queries_done, all_projects, discovered_projects, checked,
                   verified_projects, validation_results, portfolio_structure,
                   new_projects, saved, any_probe, any_ok>>
    /\ UNCHANGED <<dedup_vars, verify_vars, main_vars, call_vars>>

\* Step 7: save_report(report), the summary is printed, the report returned
ScanSave ==
    /\ spc = "saving"
    /\ saved' = Append(saved, report)
    /\ spc' = "done"
    /\ UNCHANGED <<s_config, search_api, file, remote, link_validator, lo_reports,
                   queries_done, all_projects, discovered_projects, checked,
                   verified_projects, validation_results, portfolio_structure,
                   new_projects, report, any_probe, any_ok>>
    /\ UNCHANGED <<dedup_vars, verify_vars, main_vars, call_vars>>

NextScan ==
    \/ ScanStart \/ ScanSearch \/ ScanDeduplicate
    \/ (spc = "deduplicating" /\ (DedupIter \/ DedupReturn))
    \/ ScanDiscovered \/ ScanVerifyOne
    \/ ScanVerifyReturn \/ ScanValidate \/ ScanParse \/ ScanCompare
    \/ ScanReport \/ ScanSave

SpecScan == InitScan /\ [][NextScan]_vars

\* the scan after the search, whatever the search returned
ScanAfterSearch ==
    \/ ScanDeduplicate
    \/ (spc = "deduplicating" /\ (DedupIter \/ DedupRaise \/ DedupReturn))
    \/ ScanDedupRaised
    \/ ScanDiscovered \/ ScanVerifyOne
    \/ ScanVerifyReturn \/ ScanValidate \/ ScanParse \/ ScanCompare
    \/ ScanReport \/ ScanSave

NextScanAny == ScanStart \/ ScanSearchAny \/ ScanAfterSearch

\* run_full_scan with a search API that may return malformed records
SpecScanAny == InitScan /\ [][NextScanAny]_vars

(***************************************************************************)
(* DiscoveryEngine._calculate_similarity called on two texts, and on the   *)
(* same texts in the other order                                           *)
(***************************************************************************)

\* ' '
TX_space ==
    <<" ">>
\* 'a'
TX_a ==
    <<"a">>
\* 'A b'
TX_A_b ==
    <<"A", " ", "b">>
\* 'b a'
TX_b_a ==
    <<"b", " ", "a">>
\* 'a c'
TX_a_c ==
    <<"a", " ", "c">>
\* 'a b c'
TX_a_b_c ==
    <<"a", " ", "b", " ", "c">>
\* ' a '
TX_padded ==
    <<" ", "a", " ">>

TextPool == { T_empty, TX_space, TX_a, TX_A_b, TX_b_a, TX_a_c, TX_a_b_c, TX_padded }

InitSimilarity ==
    /\ fn = "similarity"
    /\ args \in [text1 : TextPool, text2 : TextPool]
    /\ rets = <<>>
    /\ DedupOff /\ VerifyOff /\ ScanOff /\ MainOff

\* self._calculate_similarity(text1, text2)
CallSimilarity ==
    /\ fn = "similarity"
    /\ "forward" \notin DOMAIN rets
    /\ rets' = rets @@ ("forward" :> _calculate_similarity(args.text1, args.text2))
    /\ UNCHANGED <<fn, args>>
    /\ UNCHANGED <<dedup_vars, verify_vars, scan_vars, main_vars>>

\* self._calculate_similarity(text2, text1)
CallSimilaritySwapped ==
    /\ fn = "similarity"
    /\ "swapped" \notin DOMAIN rets
    /\ rets' = rets @@ ("swapped" :> _calculate_similarity(args.text2, args.text1))
    /\ UNCHANGED <<fn, args>>
    /\ UNCHANGED <<dedup_vars, verify_vars, scan_vars, main_vars>>

NextSimilarity == CallSimilarity \/ CallSimilaritySwapped

SpecSimilarity == InitSimilarity /\ [][NextSimilarity]_vars

(***************************************************************************)
(* _is_external_link of the validator, the parser and the single-file      *)
(* sourcer called on the same URL                                          *)
(***************************************************************************)

\* 'javascript:x'
XU_javascript ==
    <<"j", "a", "v", "a", "s", "c", "r", "i", "p", "t", ":", "x">>
\* 'mailto:a'
XU_mailto ==
    <<"m", "a", "i", "l", "t", "o", ":", "a">>
\* 'tel:5'
XU_tel ==
    <<"t", "e", "l", ":", "5">>
\* 'tel://5'
XU_tel_host ==
    <<"t", "e", "l", ":", "/", "/", "5">>
\* 'mailto://s'
XU_mailto_host ==
    <<"m", "a", "i", "l", "t", "o", ":", "/", "/", "s">>
\* 'javascript://s'
XU_javascript_host ==
    <<"j", "a", "v", "a", "s", "c", "r", "i", "p", "t", ":", "/", "/", "s">>
\* '/p'
XU_path ==
    <<"/", "p">>
\* '//s/p'
XU_netpath ==
    <<"/", "/", "s", "/", "p">>
\* 'h:'
XU_scheme_only ==
    <<"h", ":">>
\* 'h:///p'
XU_no_host ==
    <<"h", ":", "/", "/", "/", "p">>

ExternalUrlPool ==
    { U_empty, EU_local, EU_anchor, EU_img_local,
      XU_javascript, XU_mailto, XU_tel, XU_tel_host, XU_mailto_host,
      XU_javascript_host, XU_path, XU_netpath, XU_scheme_only, XU_no_host }

IsExternalCallers == {"validator", "parser", "legacy"}

is_external_of(caller, url) ==
    IF caller = "validator" THEN _is_external_link(url)
    ELSE IF caller = "parser" THEN Parser_is_external_link(url)
    ELSE Legacy_is_external_link(url)

InitExternal ==
    /\ fn = "is_external"
    /\ args \in [url : ExternalUrlPool]
    /\ rets = <<>>
    /\ DedupOff /\ VerifyOff /\ ScanOff /\ MainOff

\* self._is_external_link(url) of one of the three classes
CallIsExternal ==
    /\ fn = "is_external"
    /\ \E caller \in IsExternalCallers \ DOMAIN rets :
           rets' = rets @@ (caller :> is_external_of(caller, args.url))
    /\ UNCHANGED <<fn, args>>
    /\ UNCHANGED <<dedup_vars, verify_vars, scan_vars, main_vars>>

NextExternal == CallIsExternal

SpecExternal == InitExternal /\ [][NextExternal]_vars

(***************************************************************************)
(* _normalize_url of the engine and of the single-file sourcer, called on  *)
(* a URL and then on its own result                                        *)
(***************************************************************************)

\* 'h://s/b//'
NU_slashes ==
    <<"h", ":", "/", "/", "s", "/", "b", "/", "/">>
\* 'h://s/'
NU_root ==
    <<"h", ":", "/", "/", "s", "/">>
\* 'H://S/B/#f'
NU_fragment ==
    <<"H", ":", "/", "/", "S", "/", "B", "/", "#", "f">>
\* 'h://s/b?q=/'
NU_query_slash ==
    <<"h", ":", "/", "/", "s", "/", "b", "?", "q", "=", "/">>
\* 'a/b/'
NU_relative_dir ==
    <<"a", "/", "b", "/">>
\* 'h:////'
NU_only_slashes ==
    <<"h", ":", "/", "/", "/", "/">>

NormalizePool ==
    ExternalUrlPool \cup
    { U_a_x, U_a_y, U_b, U_B_slash, U_c, U_rel,
      NU_slashes, NU_root, NU_fragment, NU_query_slash, NU_relative_dir, NU_only_slashes }

normalize_url_of(caller, url) ==
    IF caller = "engine" THEN _normalize_url(url) ELSE Legacy_normalize_url(url)

InitNormalize ==
    /\ fn = "normalize"
    /\ args \in [caller : {"engine", "legacy"}, url : NormalizePool]
    /\ rets = <<>>
    /\ DedupOff /\ VerifyOff /\ ScanOff /\ MainOff

\* self._normalize_url(url)
CallNormalize ==
    /\ fn = "normalize"
    /\ rets = <<>>
    /\ rets' = <<normalize_url_of(args.caller, args.url)>>
    /\ UNCHANGED <<fn, args>>
    /\ UNCHANGED <<dedup_vars, verify_vars, scan_vars, main_vars>>

\* self._normalize_url(the string the first call returned)
CallNormalizeAgain ==
    /\ fn = "normalize"
    /\ Len(rets) = 1
    /\ rets' = Append(rets, normalize_url_of(args.caller, rets[1]))
    /\ UNCHANGED <<fn, args>>
    /\ UNCHANGED <<dedup_vars, verify_vars, scan_vars, main_vars>>

NextNormalize == CallNormalize \/ CallNormalizeAgain

SpecNormalize == InitNormalize /\ [][NextNormalize]_vars

(***************************************************************************)
(* verify_multiple_projects of the package, and the verification loop of   *)
(* the single-file run_full_scan, on a list of records                     *)
(***************************************************************************)

\* the single-file loop: score and evidence are attached to a verified
\* record; a record that is not verified is left as it was
Legacy_annotate(project, result) ==
    IF result.is_verified
    THEN [url |-> project.url, title |-> project.title,
          verification_score |-> result.score,
          verification_evidence |-> result.evidence]
    ELSE project

annotate_of(caller, project, result) ==
    IF caller = "system" THEN annotate(project, result)
    ELSE Legacy_annotate(project, result)

\* the longest list verify_multiple_projects is given
MaxBatch == 2

BatchRecords == { Candidate(u, T_g) : u \in {U_empty, VU_plain, VU_portfolio} }

BatchLists == UNION { [1..n -> BatchRecords] : n \in 0..MaxBatch }

BatchAnswers == { Answer("ok", <<>>), Answer("ok", PC_two_one), Answer("timeout", <<>>) }

BatchConfig == Config(2, <<>>, CFG_portfolio_url)

InitVerifyMany ==
    /\ fn = "verify_multiple"
    /\ args \in [caller : {"system", "legacy"}, projects : BatchLists]
    /\ rets = [projects |-> args.projects, results |-> <<>>,
               verified_projects |-> <<>>, returned |-> FALSE]
    /\ DedupOff /\ VerifyOff /\ ScanOff /\ MainOff

\* one iteration of `for project in projects`
VerifyManyOne ==
    /\ fn = "verify_multiple"
    /\ Len(rets.results) < Len(args.projects)
    /\ \E net \in BatchAnswers :
         \E i \in {Len(rets.results) + 1} :
           \E r \in {run_verifier(args.caller, BatchConfig, args.projects[i], net)} :
             rets' = [rets EXCEPT
                        !.results = Append(@, r),
                        !.projects[i] = annotate_of(args.caller, @, r),
                        !.verified_projects =
                            IF r.is_verified
                            THEN Append(@, annotate_of(args.caller, args.projects[i], r))
                            ELSE @]
    /\ UNCHANGED <<fn, args>>
    /\ UNCHANGED <<dedup_vars, verify_vars, scan_vars, main_vars>>

\* return verified_projects
VerifyManyReturn ==
    /\ fn = "verify_multiple"
    /\ Len(rets.results) = Len(args.projects)
    /\ ~rets.returned
    /\ rets' = [rets EXCEPT !.returned = TRUE]
    /\ UNCHANGED <<fn, args>>
    /\ UNCHANGED <<dedup_vars, verify_vars, scan_vars, main_vars>>

NextVerifyMany == VerifyManyOne \/ VerifyManyReturn

SpecVerifyMany == InitVerifyMany /\ [][NextVerifyMany]_vars

(***************************************************************************)
(* One element of the portfolio file validated by LinkValidator and by     *)
(* validate_links of the single-file sourcer, as an anchor, as an image    *)
(* and as an iframe                                                        *)
(***************************************************************************)

\* 'youtube.com/embed'
YT_embed_path ==
    <<"y", "o", "u", "t", "u", "b", "e", ".", "c", "o", "m", "/", "e", "m", "b", "e", "d">>

\* PortfolioSourcer._check_link_valid of the single-file_ variant: the
\* platform rules look at the format only, every exception is False
Legacy_check_link_valid(url, remote_) ==
    IF str_contains(url, YT_embed_path) \/ str_contains(url, YOUTU_BE)
    THEN youtube_format_valid(url)
    ELSE IF is_vimeo(url) THEN _validate_vimeo_url(url)
    ELSE probe_ok(requests_head(url, remote_))

Legacy_broken(elements, type) ==
    [k \in 1..Len(elements) |-> BrokenEntry(elements[k].url, type)]

\* PortfolioSourcer.validate_links of the single-file_ variant
Legacy_validate_links(file_, remote_) ==
    IF ~file_.readable THEN [broken_links |-> <<>>, broken_images |-> <<>>]
    ELSE [broken_links |->
              Legacy_broken(SelectSeq(find_all(file_.elements, "a"),
                                LAMBDA el : /\ Legacy_is_external_link(el.url)
                                            /\ ~Legacy_check_link_valid(el.url, remote_)),
                            "link")
              \o Legacy_broken(SelectSeq(find_all(file_.elements, "iframe"),
                                  LAMBDA el : ~Legacy_check_link_valid(el.url, remote_)),
                              "video"),
          broken_images |->
              Legacy_broken(SelectSeq(find_all(file_.elements, "img"),
                                LAMBDA el : /\ Legacy_is_external_link(el.url)
                                            /\ ~Legacy_check_link_valid(el.url, remote_)),
                            "image")]

\* 'h://youtube.com/c/x'
EU_youtube_other ==
    <<"h", ":", "/", "/", "y", "o", "u", "t", "u", "b", "e", ".", "c", "o", "m", "/", "c", "/", "x">>

ElementUrls ==
    { EU_anchor, EU_local, EU_youtube, EU_youtube_short, EU_youtube_watch,
      EU_vimeo, EU_youtube_other }

ElementTags == {"a", "img", "iframe"}

\* the file that holds the URL in one element of the tag
ElementFile(tag, url) == PortfolioFile(TRUE, <<Element(tag, url)>>, <<>>)

\* the servers: head answers the HEAD of the URL, oembed the existence
\* check of its video id
ElementRemote(url, head, oembed) ==
    [t \in element_targets(Element("a", url)) \cup element_targets(Element("iframe", url))
        |-> IF t = url THEN head ELSE oembed]

validate_element(caller, tag, url, remote_) ==
    IF caller = "validator"
    THEN validation_results_of(validate_all(Validator(<<>>, <<>>, <<>>),
                                            ElementFile(tag, url), remote_))
    ELSE Legacy_validate_links(ElementFile(tag, url), remote_)

InitElement ==
    /\ fn = "validate_element"
    /\ args \in [caller : {"validator", "legacy"}, url : ElementUrls,
                  head : ProbeAnswers, oembed : ProbeAnswers]
    /\ rets = <<>>
    /\ DedupOff /\ VerifyOff /\ ScanOff /\ MainOff

\* the validation of the file that holds the URL in an element of one tag
CallValidateElement ==
    /\ fn = "validate_element"
    /\ \E tag \in ElementTags \ DOMAIN rets :
           rets' = rets @@ (tag :> validate_element(args.caller, tag, args.url,
                                      ElementRemote(args.url, args.head, args.oembed)))
    /\ UNCHANGED <<fn, args>>
    /\ UNCHANGED <<dedup_vars, verify_vars, scan_vars, main_vars>>

NextElement == CallValidateElement

SpecElement == InitElement /\ [][NextElement]_vars

(***************************************************************************)
(* PortfolioParser.compare_with_discovered on the case-study sections of   *)
(* a portfolio file and a list of verified candidates                      *)
(***************************************************************************)

\* sections with title and id, with a title only, with an id only, and
\* with neither ('c' occurs in the URL 'h://s/c', 'b' in 'h://s/b')
SectionPool ==
    { CaseStudy(<<T_abcde>>, <<"c">>), CaseStudy(<<T_g>>, <<>>),
      CaseStudy(<<>>, <<"b">>), CaseStudy(<<>>, <<>>) }

\* the most case-study sections of a file, the most candidates of a call
MaxSections == 2
MaxDiscovered == 2

SectionLists == UNION { [1..n -> SectionPool] : n \in 0..MaxSections }

DiscoveredLists == UNION { [1..n -> CandidatePool] : n \in 0..MaxDiscovered }

InitCompare ==
    /\ fn = "compare"
    /\ args \in [case_studies : SectionLists, discovered_projects : DiscoveredLists]
    /\ rets = <<>>
    /\ DedupOff /\ VerifyOff /\ ScanOff /\ MainOff

\* new_projects = parser.compare_with_discovered(discovered_projects)
CallCompare ==
    /\ fn = "compare"
    /\ rets = <<>>
    /\ rets' = <<compare_with_discovered(PortfolioFile(TRUE, <<>>, args.case_studies),
                                         args.discovered_projects)>>
    /\ UNCHANGED <<fn, args>>
    /\ UNCHANGED <<dedup_vars, verify_vars, scan_vars, main_vars>>

NextCompare == CallCompare

SpecCompare == InitCompare /\ [][NextCompare]_vars

(***************************************************************************)
(* generate_report called on its own, on lists of verified and new         *)
(* projects and on validation results of every shape                       *)
(***************************************************************************)

\* a verified record with a score
Scored(score) ==
    annotate(Candidate(VU_plain, T_g), Result(TRUE, score, <<>>, FALSE))

\* the longest list of new projects (one more than the five call-outs)
MaxNew == 6
\* the longest list of verified projects
MaxVerified == 2

ScoredLists(max) == { [k \in 1..n |-> Scored(k)] : n \in 0..max }

BrokenLists(type) == { <<>>, <<BrokenEntry(EU_anchor, type)>> }

ValidationPool ==
    { [broken_links |-> l, broken_images |-> i, broken_videos |-> v] :
        l \in BrokenLists("link"), i \in BrokenLists("image"),
        v \in BrokenLists("unknown") }

InitReport ==
    /\ fn = "generate_report"
    /\ args \in [verified_projects : ScoredLists(MaxVerified),
                  validation_results : ValidationPool,
                  new_projects : ScoredLists(MaxNew)]
    /\ rets = <<>>
    /\ DedupOff /\ VerifyOff /\ ScanOff /\ MainOff

\* report = ReportGenerator().generate_report(verified_projects,
\*     validation_results, None, new_projects)
CallGenerateReport ==
    /\ fn = "generate_report"
    /\ rets = <<>>
    /\ rets' = <<generate_report(args.verified_projects, args.validation_results,
                                 get_portfolio_structure(PortfolioFile(FALSE, <<>>, <<>>)),
                                 args.new_projects)>>
    /\ UNCHANGED <<fn, args>>
    /\ UNCHANGED <<dedup_vars, verify_vars, scan_vars, main_vars>>

NextReport == CallGenerateReport

SpecReport == InitReport /\ [][NextReport]_vars

(***************************************************************************)
(* The process: main() of the package (portfolio_sourcer/                  *)
(* portfolio_sourcer.py) and of the single-file variant                    *)
(* (src/portfolio_sourcer.py) construct a PortfolioSourcer and scan.       *)
(***************************************************************************)

\* PortfolioSourcer._load_config of either variant: where self.config comes
\* from, "raises" when the exception leaves __init__
_load_config(variant_, document) ==
    IF document = "valid" THEN "document"
    ELSE IF variant_ = "legacy" /\ document = "missing" THEN "defaults"
    ELSE "raises"

\* Mutant: main() tests for an exception only, as the single-file main does.
main_exit_status_ignoring_issues(raised, report_) == IF raised THEN 1 ELSE 0

\* main() of the package: sys.exit(0 if total_issues == 0 else 1), and
\* sys.exit(1) in its `except Exception`
main_exit_status(raised, report_) ==
    IF raised THEN 1
    ELSE IF report_.summary.total_issues = 0 THEN 0 ELSE 1

InitMain ==
    /\ spc = "idle"
    /\ s_config \in ScanConfigs
    /\ search_api \in BOOLEAN
    /\ file \in ScanFiles
    /\ remote = <<>>
    /\ link_validator = Validator(<<>>, <<>>, <<>>) /\ lo_reports = <<>>
    /\ ScanLocals0
    /\ DedupOff /\ VerifyOff /\ CallOff
    /\ mpc = "start"
    /\ entry \in {"package", "legacy"}
    /\ config_doc \in {"valid", "missing", "malformed"}
    /\ config_from = "none" /\ exit_status = 0 - 1

\* sourcer = PortfolioSourcer(); an exception of the constructor ends the
\* process with status 1 (sys.exit(1) in the package, the traceback of the
\* interpreter in the single-file variant)
MainConstruct ==
    /\ mpc = "start"
    /\ \E loaded \in {_load_config(entry, config_doc)} :
           IF loaded = "raises"
           THEN mpc' = "exited" /\ exit_status' = 1 /\ config_from' = config_from
           ELSE mpc' = "constructed" /\ config_from' = loaded
                /\ exit_status' = exit_status
    /\ UNCHANGED <<entry, config_doc>>
    /\ UNCHANGED <<dedup_vars, verify_vars, scan_vars, call_vars>>

\* main() of the single-file variant: report = sourcer.run_full_scan()
LegacyRunScan ==
    /\ entry = "legacy"
    /\ mpc = "constructed"
    /\ mpc' = "scanning"
    /\ UNCHANGED <<entry, config_doc, config_from, exit_status>>
    /\ UNCHANGED <<dedup_vars, verify_vars, scan_vars, call_vars>>

\* main() of the package: report = sourcer.run_full_scan(), step by step
MainScan ==
    /\ entry = "package"
    /\ mpc = "constructed"
    /\ NextScanAny

\* main() of the package: the scan has returned or raised, sys.exit
MainExit ==
    /\ entry = "package"
    /\ mpc = "constructed"
    /\ spc \in {"done", "raised"}
    /\ exit_status' = main_exit_status(spc = "raised", report)
    /\ mpc' = "exited"
    /\ UNCHANGED <<entry, config_doc, config_from>>
    /\ UNCHANGED <<dedup_vars, verify_vars, scan_vars, call_vars>>

NextMain == MainConstruct \/ LegacyRunScan \/ MainScan \/ MainExit

SpecMain == InitMain /\ [][NextMain]_vars

\* The scan is one sequential thread and every network call it makes has a
\* timeout, so a step that can be taken is taken.
SpecScanFair == SpecScan /\ WF_vars(NextScan)

(***************************************************************************)
(* Deduplication: what the claims speak of                                 *)
(***************************************************************************)

\* the normalized URL the call in progress computes for its i-th record
NormOf(i) ==
    IF variant = "engine"
    THEN _normalize_url(str_lower(projects[i].url))
    ELSE Legacy_normalize_url(str_lower(projects[i].url))

\* its lower-cased title
TitleOf(i) == str_lower(projects[i].title)

KeptSet == { kept[k] : k \in DOMAIN kept }
KeptBefore(i) == { k \in KeptSet : k < i }

\* word-overlap similarity of two titles, as the variant in use computes it
TitleSimilarity(a, b) ==
    IF variant = "engine" THEN _calculate_similarity(a, b)
    ELSE Legacy_calculate_similarity(a, {b})

\* the maximum similarity of record i's title against the titles accepted
\* before it exceeds 0.8
NearDuplicate(i) ==
    \E k \in KeptBefore(i) :
        FracGt(TitleSimilarity(TitleOf(i), TitleOf(k)), SimilarityThreshold)

\* the URL of record i is new: non-empty and not that of an accepted record
UrlIsNew(i) ==
    /\ NormOf(i) /= <<>>
    /\ \A k \in KeptBefore(i) : NormOf(k) /= NormOf(i)

\* C2: deduplicating the output of a deduplication returns that output
\* unchanged, and no call returns a list longer than the list it was given
\* (both variants).
C2_DedupIdempotent ==
    /\ (dpc = "done" /\ pass = 2) => unique = first_out
    /\ Len(unique) <= Len(projects)
    /\ dpc = "done" => Len(first_out) <= Len(d_input)

\* C2 witness: the second call has returned, on a first output of two
\* records that is shorter than the original input.
C2_Witness ==
    /\ dpc = "done" /\ pass = 2
    /\ Len(first_out) = 2
    /\ Len(d_input) = 3

\* C3 as stated: the output has no two records with the same normalized
\* URL, and of the input records sharing a normalized URL exactly the first
\* in input order survives (stated for the non-empty normalized URLs; the
\* empty one is C5's subject).
C3_FirstOfUrlGroupSurvives ==
    (dpc = "done" /\ variant = "engine") =>
        /\ \A a, b \in 1..Len(unique) :
              a < b => _normalize_url(str_lower(unique[a].url))
                         /= _normalize_url(str_lower(unique[b].url))
        /\ \A i \in 1..Len(projects) :
              NormOf(i) /= <<>> =>
                  (i \in KeptSet <=> (\A j \in 1..(i - 1) : NormOf(j) /= NormOf(i)))

\* C3 amended: the output has no two records with the same normalized URL;
\* of the input records sharing a normalized URL at most one survives, and
\* when one survives every earlier record of its group had a title with
\* similarity above 0.8 to the title of a record accepted before it.
C3_AtMostOnePerUrl ==
    variant = "engine" =>
        /\ \A a, b \in 1..Len(unique) :
              a < b => _normalize_url(str_lower(unique[a].url))
                         /= _normalize_url(str_lower(unique[b].url))
        /\ \A i, j \in 1..pos :
              (i < j /\ NormOf(i) = NormOf(j) /\ j \in KeptSet) =>
                  (i \notin KeptSet /\ NearDuplicate(i))

\* C3 witness: the call returned a record that is the second of its URL
\* group, the first having been skipped.
C3_Witness ==
    /\ dpc = "done" /\ variant = "engine"
    /\ \E i, j \in 1..Len(projects) :
          i < j /\ NormOf(i) = NormOf(j) /\ j \in KeptSet /\ i \notin KeptSet

\* C4 as stated: in both variants a record whose URL is new is skipped
\* exactly when the maximum similarity of its lower-cased title against
\* the previously accepted titles exceeds 0.8, so no two records of the
\* output have titles whose similarity exceeds 0.8.
C4_NearDuplicatesSkipped ==
    /\ \A i \in 1..pos : UrlIsNew(i) => (i \in KeptSet <=> ~NearDuplicate(i))
    /\ \A a, b \in 1..Len(unique) :
          a < b => ~FracGt(TitleSimilarity(str_lower(unique[a].title),
                                           str_lower(unique[b].title)),
                           SimilarityThreshold)

\* C4 restricted to DiscoveryEngine.deduplicate_projects, where it holds
C4_EngineNearDuplicatesSkipped ==
    variant = "engine" => C4_NearDuplicatesSkipped

\* C5 as stated: a record whose normalized URL is empty is accepted unless
\* its title has similarity above 0.8 with a previously accepted title.
C5_EmptyUrlAccepted ==
    \A i \in 1..pos :
        (NormOf(i) = <<>> /\ ~NearDuplicate(i)) => i \in KeptSet

(***************************************************************************)
(* Verification: what the claims speak of                                  *)
(***************************************************************************)

Verified == vpc \in {"verified", "compared"}

\* the content the call had in hand: nothing is fetched for an empty URL
PageContent ==
    IF vproject.url = <<>> THEN ReturnedNone ELSE _fetch_page_content(vnet)

BoolPoints(b, points) == IF b THEN points ELSE 0

NameSignal ==
    IF content_truthy(PageContent)
    THEN int_min(_count_name_mentions(vself.verification_names, PageContent.text), 3)
    ELSE 0

AgencySignal ==
    IF content_truthy(PageContent)
    THEN Cardinality({ k \in DOMAIN vself.known_agencies :
                          agency_found(vself.known_agencies[k],
                                       str_lower(PageContent.text)) })
    ELSE 0

BrandSignal ==
    BoolPoints(/\ content_truthy(PageContent)
               /\ \E k \in DOMAIN vself.known_brands :
                     brand_found(vself.known_brands[k], str_lower(PageContent.text)),
               1)

ProfileUrlBranch == str_contains(str_lower(vproject.url), LINKEDIN_DOMAIN)

ProfileContentBranch ==
    /\ vproject.url /= <<>>
    /\ vself.linkedin_url /= <<>>
    /\ str_contains(str_lower(content_or_empty(PageContent)),
                    str_lower(vself.linkedin_url))

ProfileSignal == BoolPoints(ProfileUrlBranch \/ ProfileContentBranch, 2)

PortfolioSignal ==
    BoolPoints(_check_portfolio_mention(vself.portfolio_url, vproject.url, <<>>), 1)

EvidenceKinds(r) == { r.evidence[k].kind : k \in DOMAIN r.evidence }

FetchFailed == vproject.url /= <<>> /\ requests_get_raises(vnet)

\* C6 as stated: whatever the record (an empty URL included) and whatever
\* the configured integer threshold, the returned is_verified equals
\* (returned score >= threshold).
C6_VerifiedIffScoreReachesThreshold ==
    Verified => (vresult.is_verified <=> vresult.score >= vself.verification_threshold)

\* C7: two verifiers that differ only in verification_threshold return, for
\* the same record and the same fetched content, the same score and the
\* same evidence list.
C7_ThresholdDoesNotChangeScore ==
    vpc = "compared" =>
        /\ vresult2.score = vresult.score
        /\ vresult2.evidence = vresult.evidence

\* C7 witness: both verifiers have answered, on a record whose name signal
\* fired, and they disagree on is_verified.
C7_Witness ==
    /\ vpc = "compared"
    /\ verifier = "system"
    /\ "name" \in EvidenceKinds(vresult)
    /\ vresult.is_verified /= vresult2.is_verified

\* C8: the score VerificationSystem.verify_attribution returns is
\* min(name mentions, 3) + 1 per configured agency found + 1 if a
\* configured brand is found + 1 for the portfolio-site signal + 2 for the
\* external-profile signal; and content with the name exactly twice and
\* exactly one agency, no other signal firing, under threshold 3 gives score
\* 3 and is_verified true.
C8_ScoreIsSumOfSignals ==
    (Verified /\ verifier = "system") =>
        /\ vresult.score = NameSignal + AgencySignal + BrandSignal
                             + PortfolioSignal + ProfileSignal
        /\ ( /\ content_truthy(PageContent)
             /\ _count_name_mentions(vself.verification_names, PageContent.text) = 2
             /\ AgencySignal = 1
             /\ BrandSignal + PortfolioSignal + ProfileSignal = 0
             /\ vself.verification_threshold = 3 )
           => (vresult.score = 3 /\ vresult.is_verified)

\* C8 witness: the scenario of the claim has been verified
C8_Witness ==
    /\ Verified /\ verifier = "system"
    /\ vnet = Answer("ok", PC_two_one)
    /\ vproject.url = VU_plain
    /\ vself.verification_threshold = 3
    /\ vresult.score = 3

\* C9: when the page fetch fails, verify_attribution does not raise and its
\* score is made only of the URL-derived signals (the portfolio-site point
\* and the URL branch of the external-profile signal), so the score is at
\* most 3 and there is no name, agency or brand evidence entry.
C9_FetchFailureScoresUrlSignalsOnly ==
    (Verified /\ FetchFailed) =>
        /\ ~vresult.raised
        /\ vresult.score =
              IF verifier = "system"
              THEN BoolPoints(ProfileUrlBranch, 2) + PortfolioSignal
              ELSE BoolPoints(domain_in_url(str_lower(vproject.url)), 1)
        /\ vresult.score <= 3
        /\ EvidenceKinds(vresult) \cap {"name", "agencies", "brand"} = {}

\* C9 witness: the fetch timed out and both URL-derived signals fired
C9_Witness ==
    /\ Verified /\ verifier = "system"
    /\ vnet.kind = "timeout"
    /\ vresult.score = 3
    /\ EvidenceKinds(vresult) = {"linkedin", "portfolio"}

(***************************************************************************)
(* Validation and the full scan: what the claims speak of                  *)
(***************************************************************************)

\* C1 as stated: with the same file and every probe answering the same
\* way, the second validation on the same PortfolioSourcer reports the same
\* broken_links, broken_images and broken_videos as the first (the same
\* lists and the same counts of them) and carries nothing over from it.
C1_SecondValidationIdentical ==
    Len(lo_reports) >= 2 => lo_reports[2] = lo_reports[1]

\* C10: a full scan that has started reaches report generation and saving
\* whatever each network probe does: it ends with the generated report
\* written, and is never left by an exception.
C10_ScanEmitsReport ==
    (spc = "discovering") ~> (spc = "done" /\ saved = <<report>>)

\* C10 witness: the scan is done, it made probes and none succeeded, and
\* the saved report has zero verified candidates.
C10_Witness ==
    /\ spc = "done"
    /\ any_probe /\ ~any_ok
    /\ saved = <<report>>
    /\ report.summary.total_verified_projects = 0
    /\ report.summary.total_issues > 0

\* C11 as stated: a malformed record among the search results (a title or
\* url that is no string) does not abort the scan: no exception leaves
\* deduplication or the scan.
C11_MalformedRecordDoesNotAbort ==
    dpc /= "raised" /\ spc /= "raised"

(***************************************************************************)
(* The process: what the claims speak of                                   *)
(***************************************************************************)

\* C12 as stated: with a missing or malformed configuration document the
\* construction of a PortfolioSourcer fails in every entry point; no
\* sourcer is constructed and no scan runs on a substituted configuration.
C12_ConfigFailureIsFatal ==
    config_doc /= "valid" =>
        /\ mpc \notin {"constructed", "scanning"}
        /\ config_from = "none"
        /\ spc = "idle"

\* the process ended on an exception: the constructor or the scan raised
Fatal == config_from = "none" \/ spc = "raised"

\* C14: the package's process exits with a non-zero status exactly when
\* the scan failed fatally or the report's total_issues is greater than 0,
\* total_issues being the sum of the three broken counts of the run; it
\* exits 0 when the scan completed with no broken entry.
C14_ExitStatusReflectsIssues ==
    (entry = "package" /\ mpc = "exited") =>
        /\ exit_status \in {0, 1}
        /\ (exit_status /= 0) <=> (Fatal \/ report.summary.total_issues > 0)
        /\ ~Fatal => report.summary.total_issues =
                         Len(validation_results.broken_links)
                         + Len(validation_results.broken_images)
                         + Len(validation_results.broken_videos)

\* C14 witness: a scan that completed and wrote a report with a broken
\* entry, and the process has exited with status 1
C14_Witness ==
    /\ entry = "package" /\ mpc = "exited"
    /\ spc = "done" /\ saved = <<report>>
    /\ report.summary.total_issues > 0
    /\ exit_status = 1

(***************************************************************************)
(* The report: what the claims speak of                                    *)
(***************************************************************************)

ReportReturned == fn = "generate_report" /\ rets /= <<>>

Healthy ==
    /\ args.validation_results.broken_links = <<>>
    /\ args.validation_results.broken_images = <<>>
    /\ args.validation_results.broken_videos = <<>>

HealthyEntries(recs) == { k \in DOMAIN recs : recs[k].kind = "healthy" }

\* C13 as stated: with no broken link, image or video the recommendation
\* list is the full-health statement alone, for every verified and
\* new-project list.
C13_HealthyIsOnlyRecommendation ==
    (ReportReturned /\ Healthy) =>
        rets[1].recommendations = <<Rec("healthy", 0)>>

\* C13 amended: with no broken link, image or video the recommendation
\* list holds exactly one full-health statement, as its last entry; it is
\* the only entry exactly when there are no new projects, and otherwise
\* follows the entry counting the new projects and one call-out for each
\* of the first five of them.
C13_OneHealthyEntryLast ==
    (ReportReturned /\ Healthy) =>
        /\ HealthyEntries(rets[1].recommendations)
               = {Len(rets[1].recommendations)}
        /\ Len(rets[1].recommendations) =
               IF args.new_projects = <<>> THEN 1
               ELSE 2 + int_min(Len(args.new_projects), 5)
        /\ \A k \in 1..(Len(rets[1].recommendations) - 1) :
               rets[1].recommendations[k].kind =
                   IF k = 1 THEN "add_projects" ELSE "project"

\* C13 witness: a healthy validation result and six new projects: the
\* count, five call-outs and the full-health statement
C13_Witness ==
    /\ ReportReturned /\ Healthy
    /\ Len(args.new_projects) = 6
    /\ Len(rets[1].recommendations) = 7

(***************************************************************************)
(* Validation of the elements: what the claims speak of                    *)
(***************************************************************************)

Validated == Len(lo_reports) >= 1

\* an exception other than a RequestException left a HEAD probe and ended
\* validate_all before every element was checked
Aborted == validate_all_try(Validator(<<>>, <<>>, <<>>), file, remote).exc

Frames == { k \in DOMAIN file.elements : file.elements[k].tag = "iframe" }

\* the iframes with a YouTube source of a recognised shape
YouTubeFrames == { k \in Frames : youtube_format_valid(file.elements[k].url) }

\* the iframes checked by a HEAD request of their source
PlainFrames ==
    { k \in Frames : ~is_youtube(file.elements[k].url)
                      /\ ~is_vimeo(file.elements[k].url) }

\* what the oEmbed existence check of the k-th element answers
OEmbedAnswer(k) ==
    remote[oembed_url(_extract_youtube_id(file.elements[k].url)[1])]

ReportedIn(list, url) == \E j \in DOMAIN list : list[j].url = url

TagUrls(tag) ==
    { file.elements[k].url : k \in { j \in DOMAIN file.elements :
                                        file.elements[j].tag = tag } }

\* C15: an iframe whose source is a YouTube URL of a recognised shape is
\* accepted when the oEmbed check fails with a network error or answers
\* 200, and is reported broken when the check answers any other status.
C15_YouTubeFallsBackToFormat ==
    (Validated /\ ~Aborted) =>
        \A k \in YouTubeFrames :
            ReportedIn(link_validator.broken_videos, file.elements[k].url)
            <=> (OEmbedAnswer(k).kind = "status" /\ OEmbedAnswer(k).code /= 200)

\* C15 witness: a short-link iframe whose existence check timed out was
\* validated and is not reported
C15_Witness ==
    /\ Validated
    /\ file.elements = <<Element("iframe", EU_youtube_short)>>
    /\ OEmbedAnswer(1).kind = "timeout"
    /\ link_validator.broken_videos = <<>>

\* C16: a reported link or image is an external href or src of the file (a
\* source that is not external is never probed, so never reported), while
\* an iframe source is checked whether or not it is external: one without
\* a host is reported, one with a host is reported when its probe fails.
C16_OnlyExternalLinksProbed ==
    Validated =>
        /\ \A j \in DOMAIN link_validator.broken_links :
               /\ _is_external_link(link_validator.broken_links[j].url)
               /\ link_validator.broken_links[j].url \in TagUrls("a")
        /\ \A j \in DOMAIN link_validator.broken_images :
               /\ _is_external_link(link_validator.broken_images[j].url)
               /\ link_validator.broken_images[j].url \in TagUrls("img")
        /\ ~Aborted =>
               \A k \in PlainFrames :
                   ReportedIn(link_validator.broken_videos, file.elements[k].url)
                   <=> ~ ( /\ _is_external_link(file.elements[k].url)
                           /\ probe_ok(remote[file.elements[k].url]) )

\* C16 witness: an anchor to '#top' and an iframe of 'v.html' were
\* validated: the anchor is not reported, the iframe is
C16_Witness ==
    /\ Validated
    /\ file.elements = <<Element("a", EU_local), Element("iframe", EU_frame_local)>>
    /\ link_validator.broken_links = <<>>
    /\ ReportedIn(link_validator.broken_videos, EU_frame_local)

(***************************************************************************)
(* The external-link classifier: what the claims speak of                  *)
(***************************************************************************)

NeverExternal(url) ==
    \/ url = <<>>
    \/ \E prefix \in {<<"#">>, PREFIX_javascript, PREFIX_mailto, PREFIX_tel} :
           str_startswith(url, prefix)

\* C17 as stated: each of the three _is_external_link returns false for
\* the empty string and for a URL that starts with '#', 'javascript:',
\* 'mailto:' or 'tel:', returns true only for a URL with a non-empty host,
\* and the three classify every URL identically.
C17_IsExternalAgrees ==
    fn = "is_external" =>
        /\ \A c \in DOMAIN rets :
               /\ NeverExternal(args.url) => ~rets[c]
               /\ rets[c] => urlparse(args.url).netloc /= <<>>
        /\ \A c, d \in DOMAIN rets : rets[c] = rets[d]

(***************************************************************************)
(* Title similarity: what the claims speak of                              *)
(***************************************************************************)

SimilarityReturned == fn = "similarity" /\ "forward" \in DOMAIN rets

\* the lower-cased whitespace-separated word set of a text
WordSet(text) == str_split(str_lower(text))

WordsA == WordSet(args.text1)
WordsB == WordSet(args.text2)

InUnitInterval(f) == f.den > 0 /\ 0 <= f.num /\ f.num <= f.den

\* C18 as stated: _calculate_similarity(s, s) is 1.0 for every string s,
\* the empty string and a string of whitespace included.
C18_SimilarityReflexive ==
    (SimilarityReturned /\ args.text1 = args.text2) =>
        FracEq(rets.forward, Frac(1, 1))

\* C19: _calculate_similarity(a, b) equals _calculate_similarity(b, a).
C19_SimilaritySymmetric ==
    (SimilarityReturned /\ "swapped" \in DOMAIN rets) =>
        FracEq(rets.forward, rets.swapped)

\* C19 witness: two different texts that share words were compared in both
\* orders: 'a c' and 'a b c' give 2/3
C19_Witness ==
    /\ SimilarityReturned /\ "swapped" \in DOMAIN rets
    /\ args.text1 = TX_a_c /\ args.text2 = TX_a_b_c
    /\ FracEq(rets.forward, Frac(2, 3))

\* C20 as stated: for a and b not both empty the result is the quotient
\* |A n B| / |A u B| of the word sets, lies in [0, 1], and is 0.0 when
\* exactly one of the strings is empty.
C20_SimilarityIsJaccard ==
    (SimilarityReturned /\ ~(args.text1 = <<>> /\ args.text2 = <<>>)) =>
        /\ WordsA \cup WordsB /= {}
        /\ FracEq(rets.forward, Frac(Cardinality(WordsA \cap WordsB),
                                     Cardinality(WordsA \cup WordsB)))
        /\ InUnitInterval(rets.forward)
        /\ (args.text1 = <<>> \/ args.text2 = <<>>) => FracEq(rets.forward, Frac(0, 1))

\* C20 amended: for a and b not both empty the result lies in [0, 1]; it
\* is 0.0 when exactly one of the strings is empty; otherwise it is
\* |A n B| / |A u B| when a word set is non-empty, and 1.0 when both
\* strings consist of whitespace only (the quotient is then 0/0).
C20_SimilarityIsJaccardOfWords ==
    (SimilarityReturned /\ ~(args.text1 = <<>> /\ args.text2 = <<>>)) =>
        /\ InUnitInterval(rets.forward)
        /\ IF args.text1 = <<>> \/ args.text2 = <<>>
           THEN FracEq(rets.forward, Frac(0, 1))
           ELSE IF WordsA \cup WordsB = {}
           THEN FracEq(rets.forward, Frac(1, 1))
           ELSE FracEq(rets.forward, Frac(Cardinality(WordsA \cap WordsB),
                                          Cardinality(WordsA \cup WordsB)))

\* C20 witness: 'a c' and 'A b' were compared: one common word of three
C20_Witness ==
    /\ SimilarityReturned
    /\ args.text1 = TX_a_c /\ args.text2 = TX_A_b
    /\ FracEq(rets.forward, Frac(1, 3))

(***************************************************************************)
(* URL normalisation: what the claims speak of                             *)
(***************************************************************************)

\* C21 as stated: _normalize_url(_normalize_url(u)) equals
\* _normalize_url(u) for every URL string u, relative URLs included.
C21_NormalizeIdempotent ==
    (fn = "normalize" /\ Len(rets) = 2) => rets[2] = rets[1]

\* lower-cased scheme://host/path of a URL, query and fragment discarded
LoweredParts(url) == str_lower(url_join(urlparse(url)))

\* a string without its last character when that is '/', else the string
WithoutOneSlash(str) ==
    IF str /= <<>> /\ str[Len(str)] = "/" THEN SubSeq(str, 1, Len(str) - 1)
    ELSE str

\* C28 as stated: _normalize_url returns the lower-cased scheme://host/path
\* with query and fragment discarded and exactly one trailing '/' removed,
\* so that a URL ending in several '/' keeps all but the last.
C28_NormalizeStripsOneSlash ==
    (fn = "normalize" /\ args.caller = "engine" /\ args.url /= <<>>
        /\ Len(rets) >= 1) =>
        rets[1] = WithoutOneSlash(LoweredParts(args.url))

(***************************************************************************)
(* Verification of a list of records: what the claim speaks of             *)
(***************************************************************************)

VerifyManyReturned == fn = "verify_multiple" /\ rets.returned

\* the record carries the three fields with the values of the result
CarriesResult(project, result) ==
    /\ {"verification_score", "verification_evidence", "verified"} \subseteq DOMAIN project
    /\ project.verification_score = result.score
    /\ project.verification_evidence = result.evidence
    /\ project.verified = result.is_verified

\* C22 as stated: every record passed to the verification of a list ends
\* with verification_score, verification_evidence and verified attached,
\* equal to what verify_attribution returned for it, and the returned list
\* is exactly the records that were verified, in input order.
C22_ResultsAttachedToEveryRecord ==
    VerifyManyReturned =>
        /\ \A i \in 1..Len(args.projects) :
               CarriesResult(rets.projects[i], rets.results[i])
        /\ LET passed == { i \in 1..Len(args.projects) : rets.results[i].is_verified }
               nth(k) == CHOOSE i \in passed :
                             Cardinality({ j \in passed : j <= i }) = k
           IN  /\ Len(rets.verified_projects) = Cardinality(passed)
               /\ \A k \in 1..Cardinality(passed) :
                      rets.verified_projects[k] = rets.projects[nth(k)]

\* C22 for the package alone: VerificationSystem.verify_multiple_projects
C22_PackageAttachesResults ==
    args.caller = "system" => C22_ResultsAttachedToEveryRecord

(***************************************************************************)
(* Deduplication: order, first occurrences and repeated calls              *)
(***************************************************************************)

\* records i and j of the input are duplicates of each other: the same
\* normalized URL, or titles whose similarity exceeds 0.8
Linked(i, j) ==
    \/ NormOf(i) = NormOf(j)
    \/ FracGt(TitleSimilarity(TitleOf(i), TitleOf(j)), SimilarityThreshold)

\* the records linked to a record of group
Neighbours(group) ==
    group \cup { j \in 1..Len(projects) : \E i \in group : Linked(i, j) }

RECURSIVE GroupFrom(_, _)
GroupFrom(group, steps) ==
    IF steps = 0 THEN group ELSE GroupFrom(Neighbours(group), steps - 1)

\* the duplicate group of record i: all records reached from it by links
DuplicateGroup(i) == GroupFrom({i}, Len(projects))

FirstOfGroup(i) == \A j \in DuplicateGroup(i) : i <= j

\* the output is the input records at the kept indices, in input order
IsSubsequenceInOrder ==
    /\ Len(kept) = Len(unique)
    /\ \A k \in 1..Len(kept) : unique[k] = projects[kept[k]]
    /\ \A a, b \in 1..Len(kept) : a < b => kept[a] < kept[b]

\* C23 as stated: the output of deduplicate_projects is a subsequence of
\* its input in input order, the first record of every duplicate group is
\* kept, and a second call on the same input returns the same output.
C23_KeepsFirstOfEachGroup ==
    (dpc = "done" /\ variant = "engine") =>
        /\ IsSubsequenceInOrder
        /\ \A i \in 1..Len(projects) : FirstOfGroup(i) => i \in KeptSet
        /\ pass = 3 => unique = first_out

\* C23 apart from the records whose normalized URL is empty
C23_KeepsFirstOfEachUrlGroup ==
    (dpc = "done" /\ variant = "engine") =>
        /\ IsSubsequenceInOrder
        /\ \A i \in 1..Len(projects) :
              (FirstOfGroup(i) /\ NormOf(i) /= <<>>) => i \in KeptSet
        /\ pass = 3 => unique = first_out

(***************************************************************************)
(* Verification: the name signal and the portfolio-site signal             *)
(***************************************************************************)

\* the points an evidence entry other than the name entry stands for
OtherPoints(ev) ==
    IF ev.kind = "name" THEN 0
    ELSE IF ev.kind = "agencies" THEN Len(ev.items)
    ELSE IF ev.kind = "linkedin" THEN 2
    ELSE 1

\* what the name signal added to the score of the result
NamePoints(r) ==
    r.score - seq_sum([k \in 1..Len(r.evidence) |-> OtherPoints(r.evidence[k])])

\* the name variants the verifier in use looks for
NamesInUse ==
    IF verifier = "system" THEN vself.verification_names
    ELSE Legacy_verification_names

\* the case-insensitive word-boundary matches of the name variants in the
\* content
WordBoundaryMatches ==
    IF content_truthy(PageContent)
    THEN _count_name_mentions(NamesInUse, PageContent.text)
    ELSE 0

\* C24 as stated: in every verifier variant the name signal adds
\* min(count, 3) points, count being the number of case-insensitive
\* word-boundary matches of the name variants in the content, so the name
\* alone never adds more than 3.
C24_NameSignalCapped ==
    Verified =>
        /\ NamePoints(vresult) = int_min(WordBoundaryMatches, 3)
        /\ NamePoints(vresult) <= 3

\* C24 for VerificationSystem alone
C24_SystemNameSignalCapped ==
    verifier = "system" => C24_NameSignalCapped

\* the lower-cased host of a URL
HostOf(url) == str_lower(urlparse(url).netloc)

HostIsPortfolioDomain ==
    \E k \in DOMAIN portfolio_domains : HostOf(vproject.url) = portfolio_domains[k]

\* C25 as stated: the portfolio-site signal adds its point exactly when the
\* host of the record's URL is one of the known portfolio domains, not
\* when a domain occurs in the path or query only, and whatever the other
\* configuration fields hold.
C25_PortfolioSignalIffHostMatches ==
    (Verified /\ verifier = "system") =>
        ("portfolio" \in EvidenceKinds(vresult) <=> HostIsPortfolioDomain)

(***************************************************************************)
(* One element under the three tags: what the claims speak of              *)
(***************************************************************************)

ListNames == {"broken_links", "broken_images", "broken_videos"}

\* a list of a validation result, empty when the result has no such list
ListOf(result, name) == IF name \in DOMAIN result THEN result[name] ELSE <<>>

IsReported(result) == \E name \in ListNames : ListOf(result, name) /= <<>>

RecognisedVideoShape(url) == youtube_format_valid(url) \/ _validate_vimeo_url(url)

\* C26 as stated: the check dispatches by URL pattern whatever the tag, so
\* an anchor or an image whose URL has a recognised YouTube or Vimeo shape
\* is judged as the iframe with that URL is judged, not by the HEAD probe.
C26_DispatchByPatternForEveryTag ==
    (fn = "validate_element" /\ RecognisedVideoShape(args.url)
        /\ "iframe" \in DOMAIN rets) =>
        \A tag \in DOMAIN rets : IsReported(rets[tag]) <=> IsReported(rets["iframe"])

\* C26 for the single-file variant alone
C26_LegacyDispatchByPattern ==
    (fn = "validate_element" /\ args.caller = "legacy") =>
        C26_DispatchByPatternForEveryTag

KindOfTag(tag) ==
    IF tag = "a" THEN "link" ELSE IF tag = "img" THEN "image" ELSE "video"

ListOfTag(tag) ==
    IF tag = "a" THEN "broken_links"
    ELSE IF tag = "img" THEN "broken_images" ELSE "broken_videos"

\* the URL is checked by a HEAD probe under every tag and the probe succeeds
PlainProbeSucceeds ==
    /\ ~is_youtube(args.url) /\ ~is_vimeo(args.url)
    /\ _is_external_link(args.url)
    /\ probe_ok(args.head)

\* C27 as stated: every record of the validation result carries its URL and
\* the kind link, image or video of the tag it came from; a broken anchor
\* is in broken_links only, a broken image in broken_images only, a broken
\* iframe in broken_videos only, and a URL whose check succeeds is in none.
C27_RecordsCarryKindOfTag ==
    fn = "validate_element" =>
        \A tag \in DOMAIN rets :
            /\ \A name \in ListNames :
                  \A j \in DOMAIN ListOf(rets[tag], name) :
                      /\ ListOf(rets[tag], name)[j].url = args.url
                      /\ ListOf(rets[tag], name)[j].type = KindOfTag(tag)
                      /\ name = ListOfTag(tag)
            /\ PlainProbeSucceeds => ~IsReported(rets[tag])

\* C27 for anchors and images, where it holds in both variants
C27_LinkAndImageRecords ==
    fn = "validate_element" =>
        \A tag \in DOMAIN rets \cap {"a", "img"} :
            /\ \A name \in ListNames :
                  \A j \in DOMAIN ListOf(rets[tag], name) :
                      /\ ListOf(rets[tag], name)[j].url = args.url
                      /\ ListOf(rets[tag], name)[j].type = KindOfTag(tag)
                      /\ name = ListOfTag(tag)
            /\ PlainProbeSucceeds => ~IsReported(rets[tag])

(***************************************************************************)
(* Comparison with the portfolio: what the claim speaks of                 *)
(***************************************************************************)

\* the titles and the section ids the existing projects have
ExistingTitles ==
    { args.case_studies[k].title[1] :
        k \in { j \in DOMAIN args.case_studies : args.case_studies[j].title /= <<>> } }

ExistingIds ==
    { args.case_studies[k].id :
        k \in { j \in DOMAIN args.case_studies : args.case_studies[j].id /= <<>> } }

\* the candidate is not in the portfolio: its title is similar to no
\* existing title and its URL contains no existing section id
NotInPortfolio(p) ==
    /\ \A t \in ExistingTitles : ~_titles_similar(str_lower(p.title), str_lower(t))
    /\ \A id \in ExistingIds : ~str_contains(str_lower(p.url), id)

\* C29 as stated: compare_with_discovered returns, in input order, exactly
\* the candidates that are not in the portfolio, also when an existing
\* section has no id or no title.
C29_NewProjectsAreThoseNotInPortfolio ==
    (fn = "compare" /\ Len(rets) = 1) =>
        rets[1] = SelectSeq(args.discovered_projects, NotInPortfolio)

\* C29 when every extracted section has an id
C29_NewProjectsWhenSectionsHaveIds ==
    (fn = "compare" /\ Len(rets) = 1
        /\ \A k \in DOMAIN args.case_studies :
               args.case_studies[k].title /= <<>> => args.case_studies[k].id /= <<>>) =>
        rets[1] = SelectSeq(args.discovered_projects, NotInPortfolio)

(***************************************************************************)
(* Verification: the evidence list                                         *)
(***************************************************************************)

\* the place of a signal in the fixed order of the evidence entries
SignalRank(kind) ==
    IF kind = "name" THEN 1
    ELSE IF kind = "agencies" THEN 2
    ELSE IF kind = "brand" THEN 3
    ELSE IF kind = "linkedin" THEN 4
    ELSE 5

\* C30: for every result of verify_attribution the evidence list is
\* non-empty exactly when the score is greater than 0, has at most 5
\* entries, one per signal that fired, in the order name, agency, brand,
\* external profile, portfolio site, and the score is never negative.
C30_EvidenceMatchesScore ==
    (Verified /\ verifier = "system") =>
        /\ (vresult.evidence /= <<>>) <=> (vresult.score > 0)
        /\ Len(vresult.evidence) <= 5
        /\ \A a, b \in DOMAIN vresult.evidence :
              a < b => SignalRank(vresult.evidence[a].kind)
                         < SignalRank(vresult.evidence[b].kind)
        /\ vresult.score >= 0
        /\ Len(vresult.evidence) =
              BoolPoints(NameSignal > 0, 1) + BoolPoints(AgencySignal > 0, 1)
              + BoolPoints(BrandSignal > 0, 1) + BoolPoints(ProfileSignal > 0, 1)
              + BoolPoints(PortfolioSignal > 0, 1)

\* C30 witness: all five signals fired for one record
C30_Witness ==
    /\ Verified /\ verifier = "system"
    /\ Len(vresult.evidence) = 5
    /\ vresult.score > 0

====
